---- MODULE Spec2Model ----
(***************************************************************************)
(* Model of the VLC GUI integration code of this repository:               *)
(*   - the macOS video output window provider                              *)
(*     (modules/video_output/window_macosx.m, lines 1-590): the engine     *)
(*     thread issuing window requests, the main (UI) dispatch queue, the   *)
(*     window controller, the content view and the module delegate with    *)
(*     its serial event queue;                                             *)
(*   - the Qt main interface context MainCtx (same file, lines 592-1445):  *)
(*     observable fields and their setters, loading from the settings      *)
(*     store and the VLC options, construction and destruction with the    *)
(*     variable callbacks, the drag-and-drop handler and the handling of   *)
(*     the main window's close request, the user interface scale factor    *)
(*     and the raising of the interface on a new input;                    *)
(*   - the root item of the QML interface                                  *)
(*     (modules/gui/qt/maininterface/qml/MainInterface.qml, lines 33-195); *)
(*   - the control list filter of the Qt menus                             *)
(*     (modules/gui/qt/menus/custom_menus.hpp, lines 203-265).             *)
(***************************************************************************)
EXTENDS Integers, Sequences, FiniteSets, TLC

\* ------------------------------------------------------------------------
\* Bounds of the model
\* ------------------------------------------------------------------------
\* Number of requests the engine thread issues between Open and Close.
MaxRequests == 3
\* Number of events the window server / user produces on the UI thread.
MaxUIEvents == 2

\* A value standing for "no object" / an absent optional.
None == "none"

\* Return codes of the engine.
VLC_SUCCESS == 0
VLC_EGENERIC == -1

\* ------------------------------------------------------------------------
\* State of the macOS video window module
\* ------------------------------------------------------------------------
VARIABLES
    nsApp,        \* NSApp != nil: an NSApplication exists (Open, line 553)
    wnd,          \* the engine's window object: whether Open set its ops and
                  \* sys (576-577), and what Open returned for it
    modState,     \* engine-side life cycle of the module: "unopened", "open",
                  \* "failed" (Open returned an error), "closed" (Close returned)
    enginePc,     \* "idle", or "inEnable" while blocked in dispatch_sync (425)
    sysWc,        \* sys->windowController holds a strong reference (413, 574)
    sysDelegate,  \* sys->delegate holds a strong reference (414, 566)
    vlcWnd,       \* the delegate's vlc_vout_window ivar: "wnd" or "NULL" (73)
    mainQueue,    \* blocks pending on dispatch_get_main_queue(), FIFO
    uiCur,        \* the main-queue block the UI thread is running (if busy),
                  \* with the strong reference it loaded from weakWc
    evQueue,      \* blocks pending on the delegate's serial eventQueue (74)
    evqStuck,     \* the event queue thread is stuck in dealloc's dispatch_sync
                  \* onto the queue it is itself running on (206-211)
    nextSeq,      \* number of the next report enqueued (order of the report* calls)
    lastDelivered,\* the last vout_window_Report* call executed on the engine
    nDelivered,   \* number of vout_window_Report* calls executed so far
    win,          \* the NSWindow / content view state
    nRequests,    \* requests issued so far by the engine thread
    nUIEvents,    \* window-server events so far
    vlcWndUses    \* the uses made so far of the delegate's vlc_vout_window
                  \* ivar: the method and the thread or queue it ran on

winVars == <<nsApp, wnd, modState, enginePc, sysWc, sysDelegate, vlcWnd, mainQueue,
             uiCur, evQueue, evqStuck, nextSeq, lastDelivered, nDelivered, win,
             nRequests, nUIEvents, vlcWndUses>>

\* ------------------------------------------------------------------------
\* Geometry: backing (device pixel) and logical (point) units
\* ------------------------------------------------------------------------
\* Backing scale factors of the screens the window may be on.
Scales == {1, 2}

\* Logical lengths are kept in 1/PointUnit of a point, so that dividing a
\* backing length by any scale of Scales is exact (NSRect holds CGFloats).
PointUnit == 2

\* Sizes (in backing units) the engine asks for.
EngineSizes == {<<2, 2>>, <<4, 2>>}

\* Content sizes (logical) a user drags the window to.
UserSizes == {<<2 * PointUnit, 2 * PointUnit>>, <<3 * PointUnit, 2 * PointUnit>>}

\* A conversion from backing units that leaves the scale factor out.
convertRectFromBacking_Unscaled(sz, scale) == <<sz[1] * PointUnit, sz[2] * PointUnit>>

\* -[NSWindow convertRectFromBacking:] of a rect of the given size.
convertRectFromBacking(sz, scale) ==
    <<(sz[1] * PointUnit) \div scale, (sz[2] * PointUnit) \div scale>>

\* -[NSView convertRectToBacking:] followed by the (unsigned int) casts of
\* reportSizeChanged: (lines 193-195), which truncate.
convertRectToBacking(sz, scale) ==
    <<(sz[1] * scale) \div PointUnit, (sz[2] * scale) \div PointUnit>>

\* ------------------------------------------------------------------------
\* The window and its content view (operators on the window record)
\* ------------------------------------------------------------------------
NoSize == <<0, 0>>

\* The initial title of the window (line 232) and the titles the engine sets.
VoutTitle == "VLC media player (VLC Video Output)"
Titles == {"movie"}

\* The window built by initWithModuleDelegate: zero content rect, decorated
\* style mask, the initial title, not shown, on a screen of scale 1. The
\* field created counts the window / content view pairs built so far.
InitialWindow ==
    [visible |-> FALSE, decorated |-> TRUE, fullscreen |-> FALSE,
     fsPending |-> None, size |-> NoSize, scale |-> 1, toggles |-> 0,
     title |-> VoutTitle, created |-> 1]

\* Before Open there is no window.
NoWindow == [InitialWindow EXCEPT !.created = 0]

\* -[VLCVideoStandaloneWindowController initWithModuleDelegate:] builds a
\* window with its content view.
initWithModuleDelegate(w) == [InitialWindow EXCEPT !.created = w.created + 1]

\* A handler's outcome: the new window record and the report* calls it makes
\* on the module delegate, in call order.
Outcome(w, reports) == [win |-> w, reports |-> reports]

ReportOf(kind, sz) == [kind |-> kind, size |-> sz]

\* reportBackingSize reporting the bounds in points, unconverted.
reportBackingSize_Points(w) ==
    ReportOf("size", <<w.size[1] \div PointUnit, w.size[2] \div PointUnit>>)

\* -[VLCVideoWindowContentView reportBackingSize]
reportBackingSize(w) == ReportOf("size", convertRectToBacking(w.size, w.scale))

\* -[NSWindow setContentSize:]: a changed size resizes the content view,
\* whose resizeSubviewsWithOldSize: reports the new backing size.
setContentSize(w, sz) ==
    IF sz = w.size
        THEN Outcome(w, <<>>)
        ELSE LET w2 == [w EXCEPT !.size = sz]
             IN  Outcome(w2, <<reportBackingSize(w2)>>)

\* -[VLCVideoWindowContentView viewDidChangeBackingProperties]
viewDidChangeBackingProperties(w, scale) ==
    LET w2 == [w EXCEPT !.scale = scale]
    IN  Outcome(w2, <<reportBackingSize(w2)>>)

isWindowFullscreen(w) == w.fullscreen

setWindowDecorated(w, decorated) == [w EXCEPT !.decorated = decorated]

\* -[NSWindow toggleFullScreen:]: starts the transition away from the
\* current state; its completion is notified later.
toggleFullScreen(w) ==
    [w EXCEPT !.fsPending = IF w.fullscreen THEN "exiting" ELSE "entering",
              !.toggles = @ + 1]

\* setWindowFullscreen: reporting the requested state at request time in
\* both branches.
setWindowFullscreen_ReportAlways(w, fullscreen) ==
    LET report == ReportOf(IF fullscreen THEN "fullscreen" ELSE "windowed", NoSize)
    IN  IF fullscreen = isWindowFullscreen(w)
            THEN Outcome(w, <<report>>)
            ELSE Outcome(toggleFullScreen(w), <<report>>)

\* setWindowFullscreen: toggling without comparing with the actual state.
setWindowFullscreen_ToggleAlways(w, fullscreen) ==
    Outcome(toggleFullScreen(w), <<>>)

setWindowFullscreen(w, fullscreen) ==
    IF fullscreen = isWindowFullscreen(w)
        THEN Outcome(w, <<ReportOf(IF fullscreen THEN "fullscreen" ELSE "windowed",
                                   NoSize)>>)
        ELSE Outcome(toggleFullScreen(w), <<>>)

\* showWindowWithConfig: building a fresh window for every enable.
showWindowWithConfig_NewWindow(w, cfg) ==
    LET fresh == initWithModuleDelegate(w)
        sized == setContentSize(fresh, convertRectFromBacking(cfg.size, fresh.scale))
        decorated == setWindowDecorated(sized.win, cfg.decorated)
    IN  Outcome([decorated EXCEPT !.visible = TRUE], sized.reports)

\* A showWindowWithConfig: that shows the window first and configures it
\* afterwards.
showWindowWithConfigFrames_ShowFirst(w, cfg) ==
    LET shown == [w EXCEPT !.visible = TRUE]
        sized == setContentSize(shown, convertRectFromBacking(cfg.size, shown.scale))
        decorated == setWindowDecorated(sized.win, cfg.decorated)
    IN  <<Outcome(shown, <<>>), sized, Outcome(decorated, sized.reports)>>

\* The statements of showWindowWithConfig: in their order, what the window is
\* and what was reported after setContentSize:, after setWindowDecorated:,
\* and after showWindow: and makeKeyAndOrderFront:.
showWindowWithConfigFrames(w, cfg) ==
    LET sized == setContentSize(w, convertRectFromBacking(cfg.size, w.scale))
        decorated == setWindowDecorated(sized.win, cfg.decorated)
        shown == [decorated EXCEPT !.visible = TRUE]
    IN  <<sized, Outcome(decorated, sized.reports), Outcome(shown, sized.reports)>>

showWindowWithConfig(w, cfg) ==
    LET frames == showWindowWithConfigFrames(w, cfg)
    IN  frames[Len(frames)]

\* A close that asks the delegate, as a click on the close button does.
closeWindow_Reporting(w) ==
    Outcome([w EXCEPT !.visible = FALSE], <<ReportOf("close", NoSize)>>)

\* -[NSWindowController close]
closeWindow(w) == Outcome([w EXCEPT !.visible = FALSE], <<>>)

\* -windowShouldClose: refusing the close it reports.
windowShouldClose_Veto(w) == [reports |-> <<ReportOf("close", NoSize)>>, accept |-> FALSE]

\* -windowShouldClose: reports the close and returns YES.
windowShouldClose(w) == [reports |-> <<ReportOf("close", NoSize)>>, accept |-> TRUE]

\* -[NSWindow setTitle:]
setTitle(w, title) == Outcome([w EXCEPT !.title = title], <<>>)

windowDidEnterFullScreen(w) == Outcome(w, <<ReportOf("fullscreen", NoSize)>>)

windowDidExitFullScreen(w) == Outcome(w, <<ReportOf("windowed", NoSize)>>)

\* ------------------------------------------------------------------------
\* Object lifetimes under ARC
\* ------------------------------------------------------------------------
\* The window controller is referenced strongly by sys->windowController and,
\* for the duration of a main-queue block, by the reference that block loaded
\* from its __weak weakWc. Everything else refers to it weakly.
ControllerAlive == sysWc \/ (uiCur.busy /\ uiCur.wc)

\* The module delegate is referenced strongly by sys->delegate and by every
\* event block still on its queue: the blocks of report* read the ivar
\* vlc_vout_window, that is self->vlc_vout_window, so each block retains self
\* (lines 178-203). The controller and the view refer to it weakly.
DelegateAlive == sysDelegate \/ evQueue # <<>>

\* ------------------------------------------------------------------------
\* The module delegate: report* and the serial event queue
\* ------------------------------------------------------------------------
\* A use of the ivar vlc_vout_window: the method that reads or writes it and
\* the thread or queue the method runs on.
Use(method, on) == [method |-> method, on |-> on]

\* -setViewObject: writes vlc_vout_window->type and ->handle.nsobject. It is
\* called by the controller's initWithModuleDelegate:, on the main thread.
setViewObject == Use("setViewObject:", "main")

\* -enqueueEventBlock: dispatch_async appends the block to the serial queue.
enqueueEventBlock(queue, block) == Append(queue, block)

\* The event blocks made by the given report* calls, numbered in call order.
EventBlocks(reports, first) ==
    [i \in 1..Len(reports) |->
        [kind |-> reports[i].kind, size |-> reports[i].size, seq |-> first + i - 1]]

RECURSIVE EnqueueAll(_, _)
EnqueueAll(queue, blocks) ==
    IF blocks = <<>>
        THEN queue
        ELSE EnqueueAll(enqueueEventBlock(queue, Head(blocks)), Tail(blocks))

\* The report* messages a handler sends to its __weak _moduleDelegate: they
\* enqueue event blocks when the delegate still exists and are messages to
\* nil otherwise.
SendReports(reports) ==
    IF DelegateAlive
        THEN /\ evQueue' = EnqueueAll(evQueue, EventBlocks(reports, nextSeq))
             /\ nextSeq' = nextSeq + Len(reports)
        ELSE UNCHANGED <<evQueue, nextSeq>>

\* No report has reached the engine yet.
NoDelivery == [kind |-> None, size |-> NoSize, seq |-> 0, wnd |-> "NULL",
               afterClose |-> FALSE]

\* A queue that runs its most recently submitted block first.
NextEventBlock_Newest(queue) == queue[Len(queue)]

\* The block the queue runs next: eventQueue is created DISPATCH_QUEUE_SERIAL
\* (line 155), which runs its blocks one at a time in submission order.
NextEventBlock(queue) == Head(queue)

\* The event queue thread runs the next block, which calls
\* vout_window_Report*(vlc_vout_window, ...), and releases it. Releasing the
\* last block after sys->delegate was cleared drops the last reference to the
\* delegate on the queue's own thread: -dealloc then calls dispatch_sync on
\* the queue it is running on and never returns.
DeliverReport ==
    /\ evQueue # <<>> /\ ~evqStuck
    /\ LET b == NextEventBlock(evQueue)
           rest == [i \in 1..(Len(evQueue) - 1) |->
                       IF i < CHOOSE k \in 1..Len(evQueue) : evQueue[k] = b
                           THEN evQueue[i] ELSE evQueue[i + 1]]
       IN  /\ lastDelivered' = [kind |-> b.kind, size |-> b.size, seq |-> b.seq,
                                wnd |-> vlcWnd, afterClose |-> modState = "closed"]
           /\ nDelivered' = nDelivered + 1
           /\ evQueue' = rest
           /\ evqStuck' = (rest = <<>> /\ ~sysDelegate)
           /\ vlcWndUses' = vlcWndUses \cup {Use("report", "eventQueue")}
    /\ UNCHANGED <<nsApp, wnd, modState, enginePc, sysWc, sysDelegate, vlcWnd, mainQueue,
                   uiCur, nextSeq, win, nRequests, nUIEvents>>

\* ------------------------------------------------------------------------
\* The engine thread: Open, the window operations, Close
\* ------------------------------------------------------------------------
\* The engine's window object before Open.
NoWnd == [ops |-> FALSE, sys |-> FALSE, ret |-> None]

\* A block for the main queue: the operation with its captured arguments.
\* Every block of a window operation also captures weakWc, a __weak
\* reference to the controller.
Block(op, size, flag) == [op |-> op, size |-> size, flag |-> flag, title |-> ""]

\* Open going on to create the delegate and the window without looking
\* for an NSApplication.
Open_NoAppCheck ==
    /\ modState = "unopened"
    /\ modState' = "opening"
    /\ sysDelegate' = TRUE
    /\ vlcWnd' = "wnd"
    /\ mainQueue' = Append(mainQueue, Block("init", NoSize, FALSE))
    /\ enginePc' = "inOpen"
    /\ vlcWndUses' = vlcWndUses \cup {Use("initWithVLCVoutWindow:", "engine")}
    /\ UNCHANGED <<nsApp, wnd, sysWc, uiCur, evQueue, evqStuck, nextSeq,
                   lastDelivered, nDelivered, win, nRequests, nUIEvents>>

\* Open, up to its dispatch_sync: without an NSApplication it returns
\* VLC_EGENERIC at once; otherwise it creates the delegate and waits for the
\* main queue to run the block that creates the window controller.
Open ==
    /\ modState = "unopened"
    /\ IF ~nsApp
           THEN /\ modState' = "failed"
                /\ wnd' = [wnd EXCEPT !.ret = VLC_EGENERIC]
                /\ UNCHANGED <<sysDelegate, vlcWnd, mainQueue, enginePc, vlcWndUses>>
           ELSE /\ modState' = "opening"
                /\ sysDelegate' = TRUE
                /\ vlcWnd' = "wnd"
                /\ mainQueue' = Append(mainQueue, Block("init", NoSize, FALSE))
                /\ enginePc' = "inOpen"
                /\ vlcWndUses' = vlcWndUses \cup {Use("initWithVLCVoutWindow:", "engine")}
                /\ UNCHANGED wnd
    /\ UNCHANGED <<nsApp, sysWc, uiCur, evQueue, evqStuck, nextSeq,
                   lastDelivered, nDelivered, win, nRequests, nUIEvents>>

\* The UI thread between two blocks or events.
UIIdle == [busy |-> FALSE, blk |-> Block("none", NoSize, FALSE), wc |-> FALSE]

\* What every window operation does on the engine thread: build the block
\* and hand it to the main queue.
Dispatch(block) ==
    /\ modState = "open" /\ enginePc = "idle"
    /\ nRequests < MaxRequests
    /\ nRequests' = nRequests + 1
    /\ mainQueue' = Append(mainQueue, block)
    /\ UNCHANGED <<nsApp, vlcWndUses, wnd, modState, sysWc, sysDelegate, vlcWnd, uiCur, evQueue,
                   evqStuck, nextSeq, lastDelivered, nDelivered, win, nUIEvents>>

\* A dispatch that makes the caller wait for the block, as dispatch_sync does.
dispatch_async_Waiting(block) == Dispatch(block) /\ enginePc' = "inEnable"

\* dispatch_async returns at once; dispatch_sync blocks the caller until the
\* block has run.
dispatch_async(block) == Dispatch(block) /\ UNCHANGED enginePc

dispatch_sync(block) == Dispatch(block) /\ enginePc' = "inEnable"

\* WindowEnable handing its block over without waiting for it.
WindowEnable_Async(cfg) == dispatch_async(Block("enable", cfg.size, cfg.decorated))

WindowEnable(cfg) == dispatch_sync(Block("enable", cfg.size, cfg.decorated))

WindowDisable == dispatch_async(Block("disable", NoSize, FALSE))

\* WindowResize setting the content size itself, on the engine thread.
WindowResize_Direct(size) ==
    /\ modState = "open" /\ enginePc = "idle"
    /\ nRequests < MaxRequests
    /\ nRequests' = nRequests + 1
    /\ LET out == setContentSize(win, convertRectFromBacking(size, win.scale))
       IN  win' = out.win /\ SendReports(out.reports)
    /\ UNCHANGED <<nsApp, vlcWndUses, wnd, modState, enginePc, sysWc, sysDelegate, vlcWnd, mainQueue,
                   uiCur, evqStuck, lastDelivered, nDelivered, nUIEvents>>

WindowResize(size) == dispatch_async(Block("resize", size, FALSE))

WindowSetFullscreen == dispatch_async(Block("fullscreen", NoSize, TRUE))

WindowUnsetFullscreen == dispatch_async(Block("fullscreen", NoSize, FALSE))

WindowSetTitle(title) ==
    dispatch_async([Block("title", NoSize, FALSE) EXCEPT !.title = title])

\* Close clears both strong references of sys. With no event block pending
\* the delegate's last reference is dropped here: -dealloc runs on the engine
\* thread and its dispatch_sync sets vlc_vout_window to NULL. With event
\* blocks pending the blocks keep the delegate alive and -dealloc does not
\* run.
Close ==
    /\ modState = "open" /\ enginePc = "idle"
    /\ modState' = "closed"
    /\ sysWc' = FALSE
    /\ sysDelegate' = FALSE
    /\ vlcWnd' = IF evQueue = <<>> THEN "NULL" ELSE vlcWnd
    /\ vlcWndUses' = IF evQueue = <<>>
                         THEN vlcWndUses \cup {Use("dealloc", "eventQueue")}
                         ELSE vlcWndUses
    /\ UNCHANGED <<nsApp, wnd, enginePc, mainQueue, uiCur, evQueue, evqStuck, nextSeq,
                   lastDelivered, nDelivered, win, nRequests, nUIEvents>>

\* ------------------------------------------------------------------------
\* The UI (main) thread: main-queue blocks
\* ------------------------------------------------------------------------
\* A block that captured the controller strongly: it always has one.
UIBegin_Strong ==
    /\ ~uiCur.busy /\ mainQueue # <<>>
    /\ uiCur' = [busy |-> TRUE, blk |-> Head(mainQueue), wc |-> TRUE]
    /\ mainQueue' = Tail(mainQueue)
    /\ UNCHANGED <<nsApp, vlcWndUses, wnd, modState, enginePc, sysWc, sysDelegate, vlcWnd, evQueue,
                   evqStuck, nextSeq, lastDelivered, nDelivered, win, nRequests, nUIEvents>>

\* The UI thread takes the next block of the main queue and loads the
\* block's weakWc: a strong reference if the controller still exists, nil
\* if Close released it.
UIBegin ==
    /\ ~uiCur.busy /\ mainQueue # <<>>
    /\ uiCur' = [busy |-> TRUE, blk |-> Head(mainQueue), wc |-> ControllerAlive]
    /\ mainQueue' = Tail(mainQueue)
    /\ UNCHANGED <<nsApp, vlcWndUses, wnd, modState, enginePc, sysWc, sysDelegate, vlcWnd, evQueue,
                   evqStuck, nextSeq, lastDelivered, nDelivered, win, nRequests, nUIEvents>>

\* A resize block that reports the size it has set, besides leaving the
\* report to the view's resize handler.
RunBlock_ResizeReports(w, blk) ==
    CASE blk.op = "enable" ->
            showWindowWithConfig(w, [size |-> blk.size, decorated |-> blk.flag])
      [] blk.op = "disable" -> closeWindow(w)
      [] blk.op = "resize" ->
            LET out == setContentSize(w, convertRectFromBacking(blk.size, w.scale))
            IN  Outcome(out.win, Append(out.reports, reportBackingSize(out.win)))
      [] blk.op = "fullscreen" -> setWindowFullscreen(w, blk.flag)
      [] blk.op = "title" -> setTitle(w, blk.title)


\* The body of a block, on a live controller.
RunBlock(w, blk) ==
    CASE blk.op = "enable" ->
            showWindowWithConfig(w, [size |-> blk.size, decorated |-> blk.flag])
      [] blk.op = "disable" -> closeWindow(w)
      [] blk.op = "resize" ->
            setContentSize(w, convertRectFromBacking(blk.size, w.scale))
      [] blk.op = "fullscreen" -> setWindowFullscreen(w, blk.flag)
      [] blk.op = "title" -> setTitle(w, blk.title)

\* The UI thread runs the body of the block it took. The block of Open
\* creates the controller with its window and view; Open, which waited for
\* it, then stores the controller in sys, sets the ops and sys of the window
\* object and returns VLC_SUCCESS. The block of a window operation sends
\* its messages to the controller it loaded; with a nil controller each is
\* a message to nil. The engine thread blocked in dispatch_sync resumes
\* when its block has run.
UIRun ==
    /\ uiCur.busy
    /\ uiCur' = UIIdle
    /\ IF uiCur.blk.op = "init"
           THEN /\ win' = initWithModuleDelegate(win)
                /\ sysWc' = TRUE
                /\ wnd' = [ops |-> TRUE, sys |-> TRUE, ret |-> VLC_SUCCESS]
                /\ modState' = "open"
                /\ vlcWndUses' = vlcWndUses \cup {setViewObject}
                /\ UNCHANGED <<evQueue, nextSeq>>
           ELSE /\ IF uiCur.wc
                      THEN LET out == RunBlock(win, uiCur.blk)
                           IN  win' = out.win /\ SendReports(out.reports)
                      ELSE UNCHANGED <<win, evQueue, nextSeq>>
                /\ UNCHANGED <<wnd, modState, sysWc, vlcWndUses>>
    /\ enginePc' = IF uiCur.blk.op \in {"enable", "init"} THEN "idle" ELSE enginePc
    /\ UNCHANGED <<nsApp, sysDelegate, vlcWnd, mainQueue, evqStuck,
                   lastDelivered, nDelivered, nRequests, nUIEvents>>

\* ------------------------------------------------------------------------
\* The UI (main) thread: events of the window server and the user
\* ------------------------------------------------------------------------
\* The window and its view exist from Open on; the window server may keep
\* them after Close.
WindowExists == modState \in {"open", "closed"}

UIEvent(out) ==
    /\ WindowExists /\ ~uiCur.busy
    /\ nUIEvents < MaxUIEvents
    /\ nUIEvents' = nUIEvents + 1
    /\ win' = out.win
    /\ SendReports(out.reports)
    /\ UNCHANGED <<nsApp, vlcWndUses, wnd, modState, enginePc, sysWc, sysDelegate, vlcWnd, mainQueue,
                   uiCur, evqStuck, lastDelivered, nDelivered, nRequests>>

\* The user drags the window to another size: the view is resized.
UserResize(size) ==
    /\ win.visible /\ size # win.size
    /\ UIEvent(setContentSize(win, size))

\* The window moves to a screen with another backing scale factor.
BackingChange(scale) ==
    /\ scale # win.scale
    /\ UIEvent(viewDidChangeBackingProperties(win, scale))

\* The user clicks the close button: the window asks its delegate, the
\* controller, if it still has one, and closes unless the answer is NO.
UserClose ==
    /\ win.visible
    /\ LET asked == IF ControllerAlive
                        THEN windowShouldClose(win)
                        ELSE [reports |-> <<>>, accept |-> TRUE]
       IN  UIEvent(Outcome(IF asked.accept THEN closeWindow(win).win ELSE win,
                           asked.reports))

\* The user toggles fullscreen with the window's own control.
UserToggleFullscreen ==
    /\ win.visible /\ win.fsPending = None
    /\ UIEvent(Outcome([win EXCEPT !.fsPending =
                           IF win.fullscreen THEN "exiting" ELSE "entering"], <<>>))

\* The fullscreen transition completes: the style mask gets or loses the
\* fullscreen bit and the window notifies its delegate, if it still has one.
FullscreenTransitionDone ==
    /\ WindowExists /\ ~uiCur.busy
    /\ win.fsPending # None
    /\ LET w2 == [win EXCEPT !.fullscreen = (win.fsPending = "entering"),
                             !.fsPending = None]
           out == IF ~ControllerAlive THEN Outcome(w2, <<>>)
                  ELSE IF w2.fullscreen THEN windowDidEnterFullScreen(w2)
                  ELSE windowDidExitFullScreen(w2)
       IN  win' = out.win /\ SendReports(out.reports)
    /\ UNCHANGED <<nsApp, vlcWndUses, wnd, modState, enginePc, sysWc, sysDelegate, vlcWnd, mainQueue,
                   uiCur, evqStuck, lastDelivered, nDelivered, nRequests, nUIEvents>>

\* ------------------------------------------------------------------------
\* Specification of the window module
\* ------------------------------------------------------------------------
WinInit ==
    /\ nsApp \in BOOLEAN
    /\ wnd = NoWnd
    /\ modState = "unopened"
    /\ enginePc = "idle"
    /\ sysWc = FALSE
    /\ sysDelegate = FALSE
    /\ vlcWnd = "NULL"
    /\ mainQueue = <<>>
    /\ uiCur = UIIdle
    /\ evQueue = <<>>
    /\ evqStuck = FALSE
    /\ nextSeq = 1
    /\ lastDelivered = NoDelivery
    /\ nDelivered = 0
    /\ win = NoWindow
    /\ nRequests = 0
    /\ nUIEvents = 0
    /\ vlcWndUses = {}

WinIdle ==
    /\ nsApp = TRUE
    /\ wnd = NoWnd
    /\ modState = "unopened"
    /\ enginePc = "idle"
    /\ sysWc = FALSE
    /\ sysDelegate = FALSE
    /\ vlcWnd = "NULL"
    /\ mainQueue = <<>>
    /\ uiCur = UIIdle
    /\ evQueue = <<>>
    /\ evqStuck = FALSE
    /\ nextSeq = 1
    /\ lastDelivered = NoDelivery
    /\ nDelivered = 0
    /\ win = NoWindow
    /\ nRequests = 0
    /\ nUIEvents = 0
    /\ vlcWndUses = {}

\* ------------------------------------------------------------------------
\* MainCtx: observable fields, settings store, setters
\* ------------------------------------------------------------------------
\* Number of setter calls and reloads after construction.
MaxCalls == 2
\* Number of keys a settings store holds when MainCtx is constructed.
MaxStoredKeys == 1

VARIABLES
    mi,          \* the fields of the MainCtx object (p_intf->p_mi)
    settings,    \* the QSettings store: key -> [present, val]
    qtInterfaceScale, \* var_InheritFloat(p_intf, "qt-interface-scale")
    emitted,     \* the signals emitted by the last operation, in order
    call,        \* the last operation called and its argument
    nCalls,      \* operations called since construction
    systray,     \* the system tray: what the platform and the options say,
                 \* whether the queued initSystray has run, and what it left
    vlcOptions,  \* the engine options loadPrefs reads (var_InheritBool/Integer)
    csdAvailable,\* QT_CLIENT_SIDE_DECORATION_AVAILABLE in this build (872)
    observed,    \* for each signal the last reloadPrefs emitted, in order: the
                 \* fields of MainCtx as a slot of that signal reads them
    nOptionChanges \* times the options were changed since construction

ctxVars == <<mi, settings, qtInterfaceScale, emitted, call, nCalls, systray,
             vlcOptions, csdAvailable, observed, nOptionChanges>>

\* Floating point values are kept in tenths: 4.0 is 40, -1 is -10.
PlaylistWidthFactorDefault == 40
InterfaceScaleDefault == 10
\* The value of qt-interface-scale that means "no override".
NoScaleOverride == -10

\* A table of defaults with the playlist hidden-by-default flag inverted.
SettingDefaults_PlaylistShown ==
    [pl_dock_status |-> TRUE,
     playlist_visible |-> TRUE,
     playlist_width_factor |-> PlaylistWidthFactorDefault,
     grid_view |-> TRUE,
     grouping |-> "GROUPING_NONE",
     ShowRemainingTime |-> FALSE,
     pin_video_controls |-> FALSE,
     color_scheme |-> "System",
     interface_scale |-> InterfaceScaleDefault]

\* The defaults loadFromSettingsImpl passes to QSettings::value, by key.
SettingDefaults ==
    [pl_dock_status |-> TRUE,
     playlist_visible |-> FALSE,
     playlist_width_factor |-> PlaylistWidthFactorDefault,
     grid_view |-> TRUE,
     grouping |-> "GROUPING_NONE",
     ShowRemainingTime |-> FALSE,
     pin_video_controls |-> FALSE,
     color_scheme |-> "System",
     interface_scale |-> InterfaceScaleDefault]

SettingKeys == DOMAIN SettingDefaults

\* Values a settings file may hold for each key. The store is a text file
\* any program or user can edit: numbers out of the range the setters accept
\* are among them.
StoredValues ==
    [pl_dock_status |-> <<FALSE>>,
     playlist_visible |-> <<TRUE>>,
     playlist_width_factor |-> <<20, 0, -10>>,
     grid_view |-> <<FALSE>>,
     grouping |-> <<"GROUPING_NAME">>,
     ShowRemainingTime |-> <<TRUE>>,
     pin_video_controls |-> <<TRUE>>,
     color_scheme |-> <<"Day">>,
     interface_scale |-> <<20, 40>>]

Absent(key) == [present |-> FALSE, val |-> SettingDefaults[key]]

Stored(v) == [present |-> TRUE, val |-> v]

EmptyStore == [k \in SettingKeys |-> Absent(k)]

\* The stores holding at most MaxStoredKeys keys, each with one of its values.
Stores ==
    UNION {{[k \in SettingKeys |->
                IF k \in present THEN Stored(StoredValues[k][pick[k]]) ELSE Absent(k)]
              : pick \in {f \in [present -> 1..Len(StoredValues.playlist_width_factor)] :
                             \A k \in present : f[k] <= Len(StoredValues[k])}}
           : present \in {ks \in SUBSET SettingKeys : Cardinality(ks) <= MaxStoredKeys}}

\* QSettings::value(name, defaultValue).value<T>() for a stored value of type T.
SettingsValue(store, key, defaultValue) ==
    IF store[key].present THEN store[key].val ELSE defaultValue

\* What an operation of MainCtx leaves: the fields and the signals emitted.
Result(m, signals) == [mi |-> m, signals |-> signals]

\* setPinVideoControls emitting on every call.
setPinVideoControls_NoGuard(m, pinVideoControls) ==
    Result([m EXCEPT !.m_pinVideoControls = pinVideoControls],
           <<"pinVideoControlsChanged">>)

setPinVideoControls(m, pinVideoControls) ==
    IF m.m_pinVideoControls = pinVideoControls
        THEN Result(m, <<>>)
        ELSE Result([m EXCEPT !.m_pinVideoControls = pinVideoControls],
                    <<"pinVideoControlsChanged">>)

setHasAcrylicSurface(m, v) ==
    IF m.m_hasAcrylicSurface = v
        THEN Result(m, <<>>)
        ELSE Result([m EXCEPT !.m_hasAcrylicSurface = v], <<"hasAcrylicSurfaceChanged">>)

setAcrylicActive(m, newAcrylicActive) ==
    IF m.m_acrylicActive = newAcrylicActive
        THEN Result(m, <<>>)
        ELSE Result([m EXCEPT !.m_acrylicActive = newAcrylicActive],
                    <<"acrylicActiveChanged">>)

setPreferHotkeys(m, enable) ==
    IF m.m_preferHotkeys = enable
        THEN Result(m, <<>>)
        ELSE Result([m EXCEPT !.m_preferHotkeys = enable], <<"preferHotkeysChanged">>)

setPlaylistDocked(m, docked) ==
    Result([m EXCEPT !.b_playlistDocked = docked], <<"playlistDockedChanged">>)

setPlaylistVisible(m, visible) ==
    Result([m EXCEPT !.playlistVisible = visible], <<"playlistVisibleChanged">>)

\* A setPlaylistWidthFactor that accepts a factor of zero.
setPlaylistWidthFactor_ZeroAccepted(m, factor) ==
    IF factor >= 0
        THEN Result([m EXCEPT !.playlistWidthFactor = factor],
                    <<"playlistWidthFactorChanged">>)
        ELSE Result(m, <<>>)

\* MainCtx::setPlaylistWidthFactor
setPlaylistWidthFactor(m, factor) ==
    IF factor > 0
        THEN Result([m EXCEPT !.playlistWidthFactor = factor],
                    <<"playlistWidthFactorChanged">>)
        ELSE Result(m, <<>>)

setShowRemainingTime(m, show) ==
    Result([m EXCEPT !.m_showRemainingTime = show], <<"showRemainingTimeChanged">>)

setGridView(m, asGrid) ==
    Result([m EXCEPT !.m_gridView = asGrid], <<"gridViewChanged">>)

setGrouping(m, grouping) ==
    Result([m EXCEPT !.m_grouping = grouping], <<"groupingChanged">>)

setInterfaceAlwaysOnTop(m, on_top) ==
    Result([m EXCEPT !.b_interfaceOnTop = on_top], <<"interfaceAlwaysOnTopChanged">>)

\* The setters of the observable fields, the field each one writes and the
\* values it is called with.
Setters ==
    {"setPlaylistDocked", "setPlaylistVisible", "setPlaylistWidthFactor",
     "setShowRemainingTime", "setGridView", "setGrouping", "setInterfaceAlwaysOnTop",
     "setPinVideoControls", "setHasAcrylicSurface", "setAcrylicActive",
     "setPreferHotkeys"}

FieldOf ==
    [setPlaylistDocked |-> "b_playlistDocked",
     setPlaylistVisible |-> "playlistVisible",
     setPlaylistWidthFactor |-> "playlistWidthFactor",
     setShowRemainingTime |-> "m_showRemainingTime",
     setGridView |-> "m_gridView",
     setGrouping |-> "m_grouping",
     setInterfaceAlwaysOnTop |-> "b_interfaceOnTop",
     setPinVideoControls |-> "m_pinVideoControls",
     setHasAcrylicSurface |-> "m_hasAcrylicSurface",
     setAcrylicActive |-> "m_acrylicActive",
     setPreferHotkeys |-> "m_preferHotkeys"]

ArgumentsOf(setter) ==
    CASE setter = "setPlaylistWidthFactor" -> {PlaylistWidthFactorDefault, 20, 0, -10}
      [] setter = "setGrouping" -> {"GROUPING_NONE", "GROUPING_NAME"}
      [] OTHER -> BOOLEAN

CallSetter(m, setter, v) ==
    CASE setter = "setPlaylistDocked" -> setPlaylistDocked(m, v)
      [] setter = "setPlaylistVisible" -> setPlaylistVisible(m, v)
      [] setter = "setPlaylistWidthFactor" -> setPlaylistWidthFactor(m, v)
      [] setter = "setShowRemainingTime" -> setShowRemainingTime(m, v)
      [] setter = "setGridView" -> setGridView(m, v)
      [] setter = "setGrouping" -> setGrouping(m, v)
      [] setter = "setInterfaceAlwaysOnTop" -> setInterfaceAlwaysOnTop(m, v)
      [] setter = "setPinVideoControls" -> setPinVideoControls(m, v)
      [] setter = "setHasAcrylicSurface" -> setHasAcrylicSurface(m, v)
      [] setter = "setAcrylicActive" -> setAcrylicActive(m, v)
      [] setter = "setPreferHotkeys" -> setPreferHotkeys(m, v)

\* The lambda loadFromSettings of loadFromSettingsImpl, for one field: r is
\* the result so far.
loadFromSettings(r, field, store, key, defaultValue, signal, callSignals) ==
    LET value == SettingsValue(store, key, defaultValue)
    IN  IF value = r.mi[field]
            THEN r
            ELSE Result([r.mi EXCEPT ![field] = value],
                        IF callSignals THEN Append(r.signals, signal) ELSE r.signals)

\* updateIntfScaleFactor recomputes the effective scale and always emits.
updateIntfScaleFactor(r) == Result(r.mi, Append(r.signals, "intfScaleFactorChanged"))

\* The scale taken from the settings whenever they hold one, and from the
\* engine option only otherwise.
userIntfScaleFactor_SettingsFirst(store, scaleOption) ==
    IF store.interface_scale.present \/ scaleOption = NoScaleOverride
        THEN SettingsValue(store, "interface_scale", SettingDefaults.interface_scale)
        ELSE scaleOption

\* The local userIntfScaleFactor of loadFromSettingsImpl: the engine option
\* qt-interface-scale, or the stored scale when the option is -1.
userIntfScaleFactor(store, scaleOption) ==
    IF scaleOption = NoScaleOverride
        THEN SettingsValue(store, "interface_scale", SettingDefaults.interface_scale)
        ELSE scaleOption

loadFromSettingsImpl(m, store, scaleOption, callSignals) ==
    LET r1 == loadFromSettings(Result(m, <<>>), "b_playlistDocked", store,
                  "pl_dock_status", SettingDefaults.pl_dock_status,
                  "playlistDockedChanged", callSignals)
        r2 == loadFromSettings(r1, "playlistVisible", store,
                  "playlist_visible", SettingDefaults.playlist_visible,
                  "playlistVisibleChanged", callSignals)
        r3 == loadFromSettings(r2, "playlistWidthFactor", store,
                  "playlist_width_factor", SettingDefaults.playlist_width_factor,
                  "playlistWidthFactorChanged", callSignals)
        r4 == loadFromSettings(r3, "m_gridView", store,
                  "grid_view", SettingDefaults.grid_view,
                  "gridViewChanged", callSignals)
        r5 == loadFromSettings(r4, "m_grouping", store,
                  "grouping", SettingDefaults.grouping,
                  "groupingChanged", callSignals)
        r6 == loadFromSettings(r5, "m_showRemainingTime", store,
                  "ShowRemainingTime", SettingDefaults.ShowRemainingTime,
                  "showRemainingTimeChanged", callSignals)
        r7 == loadFromSettings(r6, "m_pinVideoControls", store,
                  "pin_video_controls", SettingDefaults.pin_video_controls,
                  "pinVideoControlsChanged", callSignals)
        colorScheme == SettingsValue(store, "color_scheme", SettingDefaults.color_scheme)
        r8 == IF r7.mi.m_colorScheme # colorScheme
                  THEN Result([r7.mi EXCEPT !.m_colorScheme = colorScheme], r7.signals)
                  ELSE r7
        scale == userIntfScaleFactor(store, scaleOption)
    IN  IF r8.mi.m_intfUserScaleFactor # scale
            THEN updateIntfScaleFactor(
                     Result([r8.mi EXCEPT !.m_intfUserScaleFactor = scale],
                            r8.signals))
            ELSE r8

\* The members of a MainCtx before its constructor body runs.
HeaderInitial ==
    [b_playlistDocked |-> FALSE, playlistVisible |-> FALSE,
     playlistWidthFactor |-> PlaylistWidthFactorDefault, m_gridView |-> FALSE,
     m_grouping |-> "GROUPING_NONE", m_showRemainingTime |-> FALSE,
     m_pinVideoControls |-> FALSE, m_colorScheme |-> "System",
     m_intfUserScaleFactor |-> InterfaceScaleDefault, b_interfaceOnTop |-> FALSE,
     m_hasAcrylicSurface |-> FALSE, m_acrylicActive |-> FALSE,
     m_preferHotkeys |-> FALSE,
     b_minimalView |-> FALSE, i_notificationSetting |-> 0,
     m_hasToolbarMenu |-> FALSE, m_windowTitlebar |-> TRUE,
     m_smoothScroll |-> TRUE]

\* The engine options loadPrefs reads, with the values a fresh configuration
\* has for them, and the sets of values the model takes them from.
DefaultOptions ==
    [qt_minimal_view |-> FALSE, qt_notification |-> 0, video_on_top |-> FALSE,
     qt_menubar |-> FALSE, qt_titlebar |-> TRUE, qt_smooth_scrolling |-> TRUE]

OptionValues(name) == IF name = "qt_notification" THEN {0, 1} ELSE BOOLEAN

OptionSets ==
    [qt_minimal_view : OptionValues("qt_minimal_view"),
     qt_notification : OptionValues("qt_notification"),
     video_on_top : OptionValues("video_on_top"),
     qt_menubar : OptionValues("qt_menubar"),
     qt_titlebar : OptionValues("qt_titlebar"),
     qt_smooth_scrolling : OptionValues("qt_smooth_scrolling")]

\* loadVLCOption<T>(obj, name)
loadVLCOption(opts, name) == opts[name]

\* What loadPrefs leaves: the fields, and for each signal emitted the fields
\* as they were when it was emitted.
Noticed(m, notices) == [mi |-> m, notices |-> notices]

\* The lambda loadFromVLCOption of loadPrefs, for one field: r is the result
\* so far, signal is None for a field loaded with a null signal.
loadFromVLCOption(r, field, opts, name, signal, callSignals) ==
    LET value == loadVLCOption(opts, name)
    IN  IF value = r.mi[field]
            THEN r
            ELSE LET m2 == [r.mi EXCEPT ![field] = value]
                 IN  Noticed(m2, IF callSignals /\ signal # None
                                     THEN Append(r.notices, [signal |-> signal, seen |-> m2])
                                     ELSE r.notices)

\* A loadPrefs that assigns every field first and emits the signals of the
\* changed fields afterwards.
loadPrefs_Transactional(m, opts, csd, callSignals) ==
    LET final == [m EXCEPT !.b_minimalView = opts.qt_minimal_view,
                           !.i_notificationSetting = opts.qt_notification,
                           !.b_interfaceOnTop = opts.video_on_top,
                           !.m_hasToolbarMenu = opts.qt_menubar,
                           !.m_windowTitlebar = IF csd THEN opts.qt_titlebar ELSE @,
                           !.m_smoothScroll = opts.qt_smooth_scrolling]
        notice(field, signal) ==
            IF callSignals /\ final[field] # m[field]
                THEN <<[signal |-> signal, seen |-> final]>> ELSE <<>>
    IN  Noticed(final,
                notice("b_interfaceOnTop", "interfaceAlwaysOnTopChanged")
                \o notice("m_hasToolbarMenu", "hasToolbarMenuChanged")
                \o notice("m_windowTitlebar", "useClientSideDecorationChanged")
                \o notice("m_smoothScroll", "smoothScrollChanged"))

\* MainCtx::loadPrefs
loadPrefs(m, opts, csd, callSignals) ==
    LET r1 == loadFromVLCOption(Noticed(m, <<>>), "b_minimalView", opts,
                  "qt_minimal_view", None, callSignals)
        r2 == loadFromVLCOption(r1, "i_notificationSetting", opts,
                  "qt_notification", None, callSignals)
        r3 == loadFromVLCOption(r2, "b_interfaceOnTop", opts,
                  "video_on_top", "interfaceAlwaysOnTopChanged", callSignals)
        r4 == loadFromVLCOption(r3, "m_hasToolbarMenu", opts,
                  "qt_menubar", "hasToolbarMenuChanged", callSignals)
        r5 == IF csd
                  THEN loadFromVLCOption(r4, "m_windowTitlebar", opts,
                           "qt_titlebar", "useClientSideDecorationChanged", callSignals)
                  ELSE r4
    IN  loadFromVLCOption(r5, "m_smoothScroll", opts,
            "qt_smooth_scrolling", "smoothScrollChanged", callSignals)

\* MainCtx::reloadPrefs
reloadPrefs(m, opts, csd) == loadPrefs(m, opts, csd, TRUE)

\* What initSystray reads: QSystemTrayIcon::isSystemTrayAvailable() and the
\* options qt-system-tray and qt-start-minimized.
TrayEnvironments ==
    [available : BOOLEAN, wanted : BOOLEAN, startMinimized : BOOLEAN]

\* The tray members of a MainCtx whose initSystray has not run: no tray icon,
\* b_hideAfterCreation false, no error logged.
NoSystray(env) ==
    [env |-> env, inited |-> FALSE, sysTray |-> FALSE,
     b_hideAfterCreation |-> FALSE, error |-> FALSE]

\* MainCtx::createSystray makes the tray icon and shows it.
createSystray(t) == [t EXCEPT !.sysTray = TRUE]

\* initSystray letting qt-start-minimized force the tray without asking
\* whether the platform has one.
initSystray_Forced(t) ==
    LET forced == IF t.env.startMinimized
                      THEN [t EXCEPT !.b_hideAfterCreation = TRUE]
                      ELSE t
        done == [forced EXCEPT !.inited = TRUE]
    IN  IF t.env.startMinimized \/ (t.env.available /\ t.env.wanted)
            THEN createSystray(done)
            ELSE done

\* MainCtx::initSystray
initSystray(t) ==
    LET b_systrayAvailable == t.env.available
        minimized ==
            IF t.env.startMinimized
                THEN IF b_systrayAvailable
                         THEN [wanted |-> TRUE,
                               t |-> [t EXCEPT !.b_hideAfterCreation = TRUE]]
                         ELSE [wanted |-> t.env.wanted,
                               t |-> [t EXCEPT !.error = TRUE]]
                ELSE [wanted |-> t.env.wanted, t |-> t]
        done == [minimized.t EXCEPT !.inited = TRUE]
    IN  IF b_systrayAvailable /\ minimized.wanted
            THEN createSystray(done)
            ELSE done

\* Values of the engine option qt-interface-scale.
ScaleOptions == {NoScaleOverride, 15}

\* What the constructor leaves of the fields: loadPrefs(false) loads the
\* engine options, then loadFromSettingsImpl(false) loads the settings.
Constructed(opts, csd, store, scaleOption) ==
    loadFromSettingsImpl(loadPrefs(HeaderInitial, opts, csd, FALSE).mi,
                         store, scaleOption, FALSE)

\* MainCtx::MainCtx, with every option but video-on-top as a fresh
\* configuration has it.
CtxInit ==
    /\ settings \in Stores
    /\ qtInterfaceScale \in ScaleOptions
    /\ \E onTop \in BOOLEAN : vlcOptions = [DefaultOptions EXCEPT !.video_on_top = onTop]
    /\ csdAvailable = TRUE
    /\ LET out == Constructed(vlcOptions, csdAvailable, settings, qtInterfaceScale)
       IN  mi = out.mi /\ emitted = out.signals
    /\ call = [op |-> "MainCtx", arg |-> FALSE]
    /\ nCalls = 0
    /\ \E e \in TrayEnvironments : systray = NoSystray(e)
    /\ observed = <<>>
    /\ nOptionChanges = 0

Operation(op, arg, out) ==
    /\ nCalls < MaxCalls
    /\ nCalls' = nCalls + 1
    /\ call' = [op |-> op, arg |-> arg]
    /\ mi' = out.mi
    /\ emitted' = out.signals
    /\ observed' = <<>>
    /\ UNCHANGED <<settings, qtInterfaceScale, systray, vlcOptions, csdAvailable,
                   nOptionChanges>>

\* The event loop delivers the initSystray call the constructor queued.
InitSystray ==
    /\ ~systray.inited
    /\ systray' = initSystray(systray)
    /\ UNCHANGED <<mi, settings, qtInterfaceScale, emitted, call, nCalls,
                   vlcOptions, csdAvailable, observed, nOptionChanges>>

\* A view or the compositor calls a setter.
Set(setter, v) == Operation(setter, v, CallSetter(mi, setter, v))

\* The settings are loaded again, with signals.
ReloadFromSettings ==
    Operation("loadFromSettingsImpl", TRUE,
              loadFromSettingsImpl(mi, settings, qtInterfaceScale, TRUE))

\* MainCtx before anything of the model runs on it (the window module is
\* specified without it).
CtxIdle ==
    /\ settings = EmptyStore
    /\ qtInterfaceScale = NoScaleOverride
    /\ mi = HeaderInitial
    /\ emitted = <<>>
    /\ call = [op |-> None, arg |-> FALSE]
    /\ nCalls = 0
    /\ systray = NoSystray([available |-> FALSE, wanted |-> FALSE,
                            startMinimized |-> FALSE])
    /\ vlcOptions = DefaultOptions
    /\ csdAvailable = TRUE
    /\ observed = <<>>
    /\ nOptionChanges = 0

\* ------------------------------------------------------------------------
\* MainCtx: the user interface scale factor
\* ------------------------------------------------------------------------
\* getMinIntfUserScaleFactor() and getMaxIntfUserScaleFactor(): 0.3 and 3.0.
MinIntfUserScaleFactor == 3
MaxIntfUserScaleFactor == 30

\* qBound(min, value, max)
qBound(min, value, max) ==
    IF value < min THEN min ELSE IF value > max THEN max ELSE value

\* MainCtx::setIntfUserScaleFactor
setIntfUserScaleFactor(m, newValue) ==
    updateIntfScaleFactor(
        Result([m EXCEPT !.m_intfUserScaleFactor =
                    qBound(MinIntfUserScaleFactor, newValue, MaxIntfUserScaleFactor)],
               <<>>))

\* MainCtx::incrementIntfUserScaleFactor: a step of 0.1 up or down.
incrementIntfUserScaleFactor(m, increment) ==
    IF increment
        THEN setIntfUserScaleFactor(m, m.m_intfUserScaleFactor + 1)
        ELSE setIntfUserScaleFactor(m, m.m_intfUserScaleFactor - 1)

\* The scale factors setIntfUserScaleFactor is called with: in the range, at
\* its ends and beyond them.
ScaleArguments ==
    {MinIntfUserScaleFactor - 2, MinIntfUserScaleFactor, InterfaceScaleDefault,
     MaxIntfUserScaleFactor, MaxIntfUserScaleFactor + 1}

\* MainCtx constructed over a store that holds at most the interface scale.
ScaleInit ==
    /\ settings \in {s \in Stores :
                       \A k \in SettingKeys \ {"interface_scale"} : ~s[k].present}
    /\ qtInterfaceScale \in ScaleOptions
    /\ vlcOptions = DefaultOptions
    /\ csdAvailable = TRUE
    /\ LET out == Constructed(vlcOptions, csdAvailable, settings, qtInterfaceScale)
       IN  mi = out.mi /\ emitted = out.signals
    /\ call = [op |-> "MainCtx", arg |-> FALSE]
    /\ nCalls = 0
    /\ systray = NoSystray([available |-> FALSE, wanted |-> FALSE,
                            startMinimized |-> FALSE])
    /\ observed = <<>>
    /\ nOptionChanges = 0

\* The view sets the scale factor.
SetIntfUserScaleFactor(newValue) ==
    Operation("setIntfUserScaleFactor", newValue, setIntfUserScaleFactor(mi, newValue))

\* The user zooms the interface in or out by one step.
IncrementIntfUserScaleFactor(increment) ==
    Operation("incrementIntfUserScaleFactor", increment,
              incrementIntfUserScaleFactor(mi, increment))


\* ------------------------------------------------------------------------
\* MainCtx: reloading the preferences
\* ------------------------------------------------------------------------
\* Number of times the user changes an option after construction.
MaxOptionChanges == 2

\* MainCtx constructed over an empty settings store, under any options.
PrefsInit ==
    /\ settings = EmptyStore
    /\ qtInterfaceScale = NoScaleOverride
    /\ vlcOptions \in OptionSets
    /\ csdAvailable \in BOOLEAN
    /\ LET out == Constructed(vlcOptions, csdAvailable, settings, qtInterfaceScale)
       IN  mi = out.mi /\ emitted = out.signals
    /\ call = [op |-> "MainCtx", arg |-> FALSE]
    /\ nCalls = 0
    /\ systray = NoSystray([available |-> FALSE, wanted |-> FALSE,
                            startMinimized |-> FALSE])
    /\ observed = <<>>
    /\ nOptionChanges = 0

\* The user changes one option in the preferences.
OptionChanged(name, value) ==
    /\ nOptionChanges < MaxOptionChanges
    /\ value # vlcOptions[name]
    /\ nOptionChanges' = nOptionChanges + 1
    /\ vlcOptions' = [vlcOptions EXCEPT ![name] = value]
    /\ UNCHANGED <<mi, settings, qtInterfaceScale, emitted, call, nCalls, systray,
                   csdAvailable, observed>>

\* The preferences dialog was applied: reloadPrefs is called.
ReloadPrefs ==
    /\ nCalls < MaxCalls
    /\ nCalls' = nCalls + 1
    /\ call' = [op |-> "reloadPrefs", arg |-> TRUE]
    /\ LET out == reloadPrefs(mi, vlcOptions, csdAvailable)
       IN  /\ mi' = out.mi
           /\ observed' = out.notices
           /\ emitted' = [i \in 1..Len(out.notices) |-> out.notices[i].signal]
    /\ UNCHANGED <<settings, qtInterfaceScale, systray, vlcOptions, csdAvailable,
                   nOptionChanges>>

\* ------------------------------------------------------------------------
\* MainCtx: construction, destruction and the engine variable callbacks
\* ------------------------------------------------------------------------
\* Number of MainCtx objects constructed one after the other.
MaxLives == 2
\* Number of times the engine triggers one of the variables.
MaxTriggers == 2

VARIABLES
    ctxPc,        \* where the UI thread is in the life of the MainCtx object:
                  \* "absent" (none exists), "ctor" (in the constructor, at the
                  \* callbacks), "constructed" (the constructor has returned),
                  \* "live" (p_mi points to it), "dtor" (in the destructor,
                  \* states saved, at the callbacks)
    ctxStep,      \* callbacks added (in "ctor") or deleted (in "dtor") so far
    callbacks,    \* for each variable of libvlc, how many times its callback
                  \* is registered with p_intf as parameter
    p_mi,         \* p_intf->p_mi: "NULL" or "MainCtx"
    lastCallback, \* the last callback the engine ran, and what p_intf->p_mi
                  \* and the MainCtx were when it ran
    nTriggers,    \* variable triggers so far
    nLives        \* MainCtx objects constructed so far

lifeVars == <<ctxPc, ctxStep, callbacks, p_mi, lastCallback, nTriggers, nLives>>

\* The callbacks in the order the constructor adds them, the order the
\* destructor deletes them, and whether the callback dereferences
\* p_intf->p_mi.
AddOrder == <<"intf-toggle-fscontrol", "intf-boss", "intf-show", "intf-popupmenu">>

DelOrder == <<"intf-boss", "intf-show", "intf-toggle-fscontrol", "intf-popupmenu">>

CallbackVariables == {AddOrder[i] : i \in 1..Len(AddOrder)}

UsesMainCtx(variable) == variable \in {"intf-toggle-fscontrol", "intf-boss", "intf-show"}

NoCallbacks == [v \in CallbackVariables |-> 0]

NoCallbackRun == [variable |-> None, p_mi |-> "NULL", pc |-> "absent"]

\* var_AddCallback adds one registration of the callback.
var_AddCallback(cbs, variable) == [cbs EXCEPT ![variable] = @ + 1]

\* var_DelCallback removes one registration of the callback.
var_DelCallback(cbs, variable) ==
    [cbs EXCEPT ![variable] = IF @ > 0 THEN @ - 1 ELSE 0]

\* A save that leaves out the state of the playlist.
saveStates_WithoutPlaylist(m, store) ==
    [store EXCEPT !.pl_dock_status = Stored(m.b_playlistDocked),
                  !.ShowRemainingTime = Stored(m.m_showRemainingTime),
                  !.interface_scale = Stored(m.m_intfUserScaleFactor),
                  !.pin_video_controls = Stored(m.m_pinVideoControls),
                  !.grid_view = Stored(m.m_gridView),
                  !.grouping = Stored(m.m_grouping),
                  !.color_scheme = Stored(m.m_colorScheme)]

\* "Save states" of the destructor: settings->setValue for each key of the
\* group MainWindow.
saveStates(m, store) ==
    [store EXCEPT !.pl_dock_status = Stored(m.b_playlistDocked),
                  !.ShowRemainingTime = Stored(m.m_showRemainingTime),
                  !.interface_scale = Stored(m.m_intfUserScaleFactor),
                  !.pin_video_controls = Stored(m.m_pinVideoControls),
                  !.playlist_visible = Stored(m.playlistVisible),
                  !.playlist_width_factor = Stored(m.playlistWidthFactor),
                  !.grid_view = Stored(m.m_gridView),
                  !.grouping = Stored(m.m_grouping),
                  !.color_scheme = Stored(m.m_colorScheme)]

\* No MainCtx has been constructed.
LifeIdle ==
    /\ ctxPc = "absent"
    /\ ctxStep = 0
    /\ callbacks = NoCallbacks
    /\ p_mi = "NULL"
    /\ lastCallback = NoCallbackRun
    /\ nTriggers = 0
    /\ nLives = 0

\* A MainCtx is constructed and p_intf->p_mi points to it.
LifeLive ==
    /\ ctxPc = "live"
    /\ ctxStep = 0
    /\ callbacks = [v \in CallbackVariables |-> 1]
    /\ p_mi = "MainCtx"
    /\ lastCallback = NoCallbackRun
    /\ nTriggers = 0
    /\ nLives = 1

\* MainCtx::MainCtx up to its "Callbacks" section: the members get their
\* initial values, loadPrefs(false) and loadFromSettingsImpl(false) load
\* them, and initSystray is queued.
CtorBegin ==
    /\ ctxPc = "absent" /\ nLives < MaxLives
    /\ nLives' = nLives + 1
    /\ ctxPc' = "ctor"
    /\ ctxStep' = 0
    /\ LET out == Constructed(vlcOptions, csdAvailable, settings, qtInterfaceScale)
       IN  mi' = out.mi /\ emitted' = out.signals
    /\ call' = [op |-> "MainCtx", arg |-> FALSE]
    /\ nCalls' = 0
    /\ systray' = NoSystray(systray.env)
    /\ observed' = <<>>
    /\ UNCHANGED <<settings, qtInterfaceScale, vlcOptions, csdAvailable, nOptionChanges>>
    /\ UNCHANGED <<callbacks, p_mi, lastCallback, nTriggers>>

\* The constructor adds its next callback; after the last one it returns.
AddCallback ==
    /\ ctxPc = "ctor"
    /\ callbacks' = var_AddCallback(callbacks, AddOrder[ctxStep + 1])
    /\ ctxStep' = IF ctxStep + 1 = Len(AddOrder) THEN 0 ELSE ctxStep + 1
    /\ ctxPc' = IF ctxStep + 1 = Len(AddOrder) THEN "constructed" ELSE "ctor"
    /\ UNCHANGED ctxVars
    /\ UNCHANGED <<p_mi, lastCallback, nTriggers, nLives>>

\* The creator of the MainCtx stores the pointer the constructor returned.
StoreMainCtx ==
    /\ ctxPc = "constructed"
    /\ ctxPc' = "live"
    /\ p_mi' = "MainCtx"
    /\ UNCHANGED ctxVars
    /\ UNCHANGED <<ctxStep, callbacks, lastCallback, nTriggers, nLives>>

\* MainCtx::~MainCtx up to "Unregister callbacks": the states are saved.
DtorBegin ==
    /\ ctxPc = "live"
    /\ ctxPc' = "dtor"
    /\ ctxStep' = 0
    /\ settings' = saveStates(mi, settings)
    /\ UNCHANGED <<mi, qtInterfaceScale, emitted, call, nCalls, systray,
                   vlcOptions, csdAvailable, observed, nOptionChanges>>
    /\ UNCHANGED <<callbacks, p_mi, lastCallback, nTriggers, nLives>>

\* The destructor deletes its next callback.
DelCallback ==
    /\ ctxPc = "dtor" /\ ctxStep < Len(DelOrder)
    /\ callbacks' = var_DelCallback(callbacks, DelOrder[ctxStep + 1])
    /\ ctxStep' = ctxStep + 1
    /\ UNCHANGED ctxVars
    /\ UNCHANGED <<ctxPc, p_mi, lastCallback, nTriggers, nLives>>

\* The end of the destructor: p_intf->p_mi = NULL, and the object is gone.
DtorEnd ==
    /\ ctxPc = "dtor" /\ ctxStep = Len(DelOrder)
    /\ p_mi' = "NULL"
    /\ ctxPc' = "absent"
    /\ ctxStep' = 0
    /\ UNCHANGED ctxVars
    /\ UNCHANGED <<callbacks, lastCallback, nTriggers, nLives>>

\* A thread of the engine triggers a variable of libvlc: the callbacks
\* registered on it run, each with the parameter it was registered with.
TriggerCallback(variable) ==
    /\ nTriggers < MaxTriggers
    /\ callbacks[variable] > 0
    /\ nTriggers' = nTriggers + 1
    /\ lastCallback' = [variable |-> variable, p_mi |-> p_mi, pc |-> ctxPc]
    /\ UNCHANGED ctxVars
    /\ UNCHANGED <<ctxPc, ctxStep, callbacks, p_mi, nLives>>

\* The setters of the fields the destructor saves.
SavedSetters ==
    {"setPlaylistDocked", "setPlaylistVisible", "setPlaylistWidthFactor",
     "setShowRemainingTime", "setGridView", "setGrouping", "setPinVideoControls"}

\* A view calls a setter of the live MainCtx.
SetLive(setter, v) == ctxPc = "live" /\ Set(setter, v) /\ UNCHANGED lifeVars

\* Before the interface thread creates a MainCtx.
LifeInit ==
    /\ settings \in Stores
    /\ qtInterfaceScale \in ScaleOptions
    /\ mi = HeaderInitial
    /\ emitted = <<>>
    /\ call = [op |-> None, arg |-> FALSE]
    /\ nCalls = 0
    /\ systray = NoSystray([available |-> FALSE, wanted |-> FALSE,
                            startMinimized |-> FALSE])
    /\ vlcOptions = DefaultOptions
    /\ csdAvailable = TRUE
    /\ observed = <<>>
    /\ nOptionChanges = 0
    /\ LifeIdle


\* ------------------------------------------------------------------------
\* MainCtx::onWindowClose
\* ------------------------------------------------------------------------
\* Number of times the main window is asked to close.
MaxCloses == 2
\* Number of changes of the player (playing state, video output).
MaxPlayerEvents == 3

VARIABLES
    player,      \* p_intf->p_mainPlayerController: whether there is one, its
                 \* playing state and whether it has a video output
    playlistStops, \* calls of playlistController->stop() so far
    quit,        \* the lambdas onWindowClose connected to playingStateChanged,
                 \* and the askToQuit signals emitted so far
    lastClose,   \* the last call of onWindowClose: what it returned
    nCloses,     \* calls of onWindowClose so far
    nPlayerEvents \* changes of the player so far

closeVars == <<player, playlistStops, quit, lastClose, nCloses, nPlayerEvents>>

PlayingStates == {"PLAYING_STATE_PLAYING", "PLAYING_STATE_PAUSED", "PLAYING_STATE_STOPPED"}

\* The players onWindowClose may find: none, or one in any playing state,
\* with or without a video output.
Players ==
    {[exists |-> FALSE, state |-> "PLAYING_STATE_STOPPED", hasVideoOutput |-> FALSE]}
    \cup [exists : {TRUE}, state : PlayingStates, hasVideoOutput : BOOLEAN]

\* What onWindowClose leaves: its return value, the connections and signals,
\* and the calls of stop().
Closing(ret, q, stops) == [ret |-> ret, quit |-> q, stops |-> stops]

\* An onWindowClose that asks to quit at once in both branches.
onWindowClose_QuitAtOnce(p, q, stops) ==
    IF p.exists /\ p.hasVideoOutput
        THEN Closing(FALSE, [connections |-> q.connections + 1, asked |-> q.asked + 1],
                     stops + 1)
        ELSE Closing(TRUE, [q EXCEPT !.asked = @ + 1], stops)

\* MainCtx::onWindowClose
onWindowClose(p, q, stops) ==
    IF p.exists /\ p.hasVideoOutput
        THEN Closing(FALSE, [q EXCEPT !.connections = @ + 1], stops + 1)
        ELSE Closing(TRUE, [q EXCEPT !.asked = @ + 1], stops)

\* The lambdas connected to playingStateChanged, run for a new state: each
\* emits askToQuit if the state is PLAYING_STATE_STOPPED.
playingStateChanged(q, state) ==
    IF state = "PLAYING_STATE_STOPPED"
        THEN [q EXCEPT !.asked = @ + q.connections]
        ELSE q

NoClose == [ret |-> None]

CloseInit ==
    /\ player \in Players
    /\ playlistStops = 0
    /\ quit = [connections |-> 0, asked |-> 0]
    /\ lastClose = NoClose
    /\ nCloses = 0
    /\ nPlayerEvents = 0

CloseIdle ==
    /\ player = [exists |-> FALSE, state |-> "PLAYING_STATE_STOPPED",
                 hasVideoOutput |-> FALSE]
    /\ playlistStops = 0
    /\ quit = [connections |-> 0, asked |-> 0]
    /\ lastClose = NoClose
    /\ nCloses = 0
    /\ nPlayerEvents = 0

\* The compositor asks MainCtx whether the main window may close.
OnWindowClose ==
    /\ nCloses < MaxCloses
    /\ nCloses' = nCloses + 1
    /\ LET out == onWindowClose(player, quit, playlistStops)
       IN  /\ quit' = out.quit
           /\ playlistStops' = out.stops
           /\ lastClose' = [ret |-> out.ret]
    /\ UNCHANGED <<player, nPlayerEvents>>

\* The player's playing state changes and playingStateChanged is emitted.
PlayingStateChanged(state) ==
    /\ player.exists /\ state # player.state
    /\ nPlayerEvents < MaxPlayerEvents
    /\ nPlayerEvents' = nPlayerEvents + 1
    /\ player' = [player EXCEPT !.state = state]
    /\ quit' = playingStateChanged(quit, state)
    /\ UNCHANGED <<playlistStops, lastClose, nCloses>>

\* The player gets or loses its video output.
VideoOutputChanged ==
    /\ player.exists
    /\ nPlayerEvents < MaxPlayerEvents
    /\ nPlayerEvents' = nPlayerEvents + 1
    /\ player' = [player EXCEPT !.hasVideoOutput = ~@]
    /\ UNCHANGED <<playlistStops, quit, lastClose, nCloses>>


\* ------------------------------------------------------------------------
\* ControlListFilter (menus/custom_menus.hpp)
\* ------------------------------------------------------------------------
\* Longest source model.
MaxRows == 2
\* Number of changes of the filter's source model, player and media.
MaxFilterOps == 3

VARIABLES
    sourceModel,       \* sourceModel(): whether it is set, and the ID_ROLE
                       \* data of its rows
    m_player,          \* ControlListFilter::m_player: None or a player
    teletextAvailable, \* PlayerController::isTeletextAvailable()
    hasMenu,           \* PlayerController::hasMenu()
    mapped,            \* the source rows the proxy shows
    lastFilter,        \* the last direct call of filterAcceptsRow
    nFilterOps

filterVars == <<sourceModel, m_player, teletextAvailable, hasMenu, mapped,
                lastFilter, nFilterOps>>

\* ID_ROLE data of a row: a control type, or None for an invalid QVariant.
ControlIds == {None, "PLAY_BUTTON", "TELETEXT_BUTTONS", "DVD_MENUS_BUTTON"}

\* sourceModel() before setSourceModel: a null pointer.
NoModel == [set |-> FALSE, ids |-> <<>>]

SourceModels ==
    {NoModel} \cup [set : {TRUE}, ids : UNION {[1..n -> ControlIds] : n \in 0..MaxRows}]

\* model->data(model->index(source_row, 0), ID_ROLE): rows count from 0, and
\* the index of a row the model does not have is invalid and has no data.
data(model, source_row) ==
    IF source_row + 1 \in DOMAIN model.ids THEN model.ids[source_row + 1] ELSE None

\* A filterAcceptsRow that never hides the DVD menu button.
filterAcceptsRow_MenuUnfiltered(model, plr, teletext, menu, source_row) ==
    IF ~model.set \/ plr = None
        THEN TRUE
        ELSE LET variant == data(model, source_row)
             IN  IF variant = None THEN TRUE
                 ELSE IF variant = "TELETEXT_BUTTONS" THEN teletext
                 ELSE TRUE

\* ControlListFilter::filterAcceptsRow
filterAcceptsRow(model, plr, teletext, menu, source_row) ==
    IF ~model.set \/ plr = None
        THEN TRUE
        ELSE LET variant == data(model, source_row)
             IN  IF variant = None THEN TRUE
                 ELSE IF variant = "TELETEXT_BUTTONS" THEN teletext
                 ELSE IF variant = "DVD_MENUS_BUTTON" THEN menu
                 ELSE TRUE

\* QSortFilterProxyModel::invalidate: the proxy shows the rows of the source
\* model that filterAcceptsRow accepts.
invalidate(model, plr, teletext, menu) ==
    IF ~model.set
        THEN {}
        ELSE {row \in 0..(Len(model.ids) - 1) :
                 filterAcceptsRow(model, plr, teletext, menu, row)}

\* No call of filterAcceptsRow yet, or none since the filter changed.
NoFilterCall == [called |-> FALSE, source_row |-> 0, accepted |-> TRUE]

FilterInit ==
    /\ sourceModel = NoModel
    /\ m_player = None
    /\ teletextAvailable \in BOOLEAN
    /\ hasMenu \in BOOLEAN
    /\ mapped = {}
    /\ lastFilter = NoFilterCall
    /\ nFilterOps = 0

FilterIdle ==
    /\ sourceModel = NoModel
    /\ m_player = None
    /\ teletextAvailable = FALSE
    /\ hasMenu = FALSE
    /\ mapped = {}
    /\ lastFilter = NoFilterCall
    /\ nFilterOps = 0

\* ControlListFilter::setSourceModel
FilterSetSourceModel(model) ==
    /\ nFilterOps < MaxFilterOps
    /\ model.set /\ model # sourceModel
    /\ nFilterOps' = nFilterOps + 1
    /\ sourceModel' = model
    /\ mapped' = invalidate(model, m_player, teletextAvailable, hasMenu)
    /\ lastFilter' = NoFilterCall
    /\ UNCHANGED <<m_player, teletextAvailable, hasMenu>>

\* ControlListFilter::setPlayer
setPlayer(plr) ==
    /\ nFilterOps < MaxFilterOps
    /\ m_player # plr
    /\ nFilterOps' = nFilterOps + 1
    /\ m_player' = plr
    /\ mapped' = invalidate(sourceModel, plr, teletextAvailable, hasMenu)
    /\ lastFilter' = NoFilterCall
    /\ UNCHANGED <<sourceModel, teletextAvailable, hasMenu>>

\* The media changes what the player offers; the filter is invalidated if
\* setPlayer connected it to the player's signals.
TeletextAvailableChanged ==
    /\ nFilterOps < MaxFilterOps
    /\ nFilterOps' = nFilterOps + 1
    /\ teletextAvailable' = ~teletextAvailable
    /\ mapped' = IF m_player # None
                    THEN invalidate(sourceModel, m_player, ~teletextAvailable, hasMenu)
                    ELSE mapped
    /\ lastFilter' = NoFilterCall
    /\ UNCHANGED <<sourceModel, m_player, hasMenu>>

HasMenuChanged ==
    /\ nFilterOps < MaxFilterOps
    /\ nFilterOps' = nFilterOps + 1
    /\ hasMenu' = ~hasMenu
    /\ mapped' = IF m_player # None
                    THEN invalidate(sourceModel, m_player, teletextAvailable, ~hasMenu)
                    ELSE mapped
    /\ lastFilter' = NoFilterCall
    /\ UNCHANGED <<sourceModel, m_player, teletextAvailable>>

\* A call of filterAcceptsRow for any row number.
FilterAcceptsRow(source_row) ==
    /\ lastFilter' = [called |-> TRUE, source_row |-> source_row,
                      accepted |-> filterAcceptsRow(sourceModel, m_player,
                                       teletextAvailable, hasMenu, source_row)]
    /\ UNCHANGED <<sourceModel, m_player, teletextAvailable, hasMenu, mapped,
                   nFilterOps>>


\* ------------------------------------------------------------------------
\* The main QML interface (maininterface/qml/MainInterface.qml)
\* ------------------------------------------------------------------------
\* Items the playlist may hold.
MaxItems == 6
\* Number of steps back in the history the user takes.
MaxBackSteps == 2

VARIABLES
    _interfaceReady,   \* root._interfaceReady
    _playlistReady,    \* root._playlistReady
    playlistInitQueued, \* mainPlaylistController has queued playlistInitialized
    playlistItems,     \* number of items of the main playlist
    mediaLibraryAvailable, \* MainCtx.mediaLibraryAvailable
    history,           \* the views pushed on History, the current one last
    loadedView,        \* the view the stack view shows
    initialViews,      \* the handlers that called setInitialView, in order
    nBackSteps

qmlVars == <<_interfaceReady, _playlistReady, playlistInitQueued, playlistItems,
             mediaLibraryAvailable, history, loadedView, initialViews, nBackSteps>>

\* History.push(path, History.Go): the view becomes the current one, and
\* onCurrentChanged loads it; with History.Stay it is pushed only.
HistoryState(h, view) == [history |-> h, loadedView |-> view]

HistoryPush(st, path, go) ==
    HistoryState(Append(st.history, path), IF go THEN path ELSE st.loadedView)

\* function setInitialView()
setInitialView(st, empty, mlAvailable) ==
    LET loadPlayer == ~empty
        first == HistoryPush(st, IF mlAvailable THEN "mc/video" ELSE "mc/home",
                             ~loadPlayer)
    IN  IF loadPlayer THEN HistoryPush(first, "player", TRUE) ELSE first

QmlInit ==
    /\ _interfaceReady = FALSE
    /\ _playlistReady = FALSE
    /\ playlistInitQueued = TRUE
    /\ playlistItems \in 0..MaxItems
    /\ mediaLibraryAvailable \in BOOLEAN
    /\ history = <<>>
    /\ loadedView = None
    /\ initialViews = <<>>
    /\ nBackSteps = 0

QmlIdle ==
    /\ _interfaceReady = FALSE
    /\ _playlistReady = FALSE
    /\ playlistInitQueued = FALSE
    /\ playlistItems = 0
    /\ mediaLibraryAvailable = FALSE
    /\ history = <<>>
    /\ loadedView = None
    /\ initialViews = <<>>
    /\ nBackSteps = 0

\* A handler that sets the initial view without asking whether the other
\* side is ready.
InitialViewIf_Always(ready, handler) ==
    LET st == setInitialView(HistoryState(history, loadedView),
                             playlistItems = 0, mediaLibraryAvailable)
    IN  /\ history' = st.history
        /\ loadedView' = st.loadedView
        /\ initialViews' = Append(initialViews, handler)

\* What a handler leaves when it calls setInitialView if the other side is
\* ready.
InitialViewIf(ready, handler) ==
    IF ready
        THEN LET st == setInitialView(HistoryState(history, loadedView),
                                      playlistItems = 0, mediaLibraryAvailable)
             IN  /\ history' = st.history
                 /\ loadedView' = st.loadedView
                 /\ initialViews' = Append(initialViews, handler)
        ELSE UNCHANGED <<history, loadedView, initialViews>>

\* Component.onCompleted of the root item: QML runs it once.
ComponentCompleted ==
    /\ ~_interfaceReady
    /\ _interfaceReady' = TRUE
    /\ InitialViewIf(_playlistReady, "Component.onCompleted")
    /\ UNCHANGED <<_playlistReady, playlistInitQueued, playlistItems,
                   mediaLibraryAvailable, nBackSteps>>

\* The playlist controller emits the playlistInitialized it queued when its
\* playlistPtr was bound; onPlaylistInitialized runs.
onPlaylistInitialized ==
    /\ playlistInitQueued
    /\ playlistInitQueued' = FALSE
    /\ _playlistReady' = TRUE
    /\ InitialViewIf(_interfaceReady, "onPlaylistInitialized")
    /\ UNCHANGED <<_interfaceReady, playlistItems, mediaLibraryAvailable, nBackSteps>>

\* DropArea.onDropped with urls: they are appended to the playlist.
QmlDropped(nUrls) ==
    /\ playlistItems + nUrls <= MaxItems
    /\ playlistItems' = playlistItems + nUrls
    /\ UNCHANGED <<_interfaceReady, _playlistReady, playlistInitQueued,
                   mediaLibraryAvailable, history, loadedView, initialViews, nBackSteps>>

\* Connections.onPlayingStateChanged of the stack view, when the player has
\* stopped while the player view is the current one: back to the view
\* before it, or to the media views if there is none.
QmlPlayerStopped ==
    /\ history # <<>> /\ history[Len(history)] = "player"
    /\ LET st == IF Len(history) = 1
                     THEN HistoryPush(HistoryState(history, loadedView),
                              IF mediaLibraryAvailable THEN "mc/video" ELSE "mc/home",
                              TRUE)
                     ELSE HistoryState(SubSeq(history, 1, Len(history) - 1),
                                       history[Len(history) - 1])
       IN  history' = st.history /\ loadedView' = st.loadedView
    /\ UNCHANGED <<_interfaceReady, _playlistReady, playlistInitQueued, playlistItems,
                   mediaLibraryAvailable, initialViews, nBackSteps>>

\* The mouse back button: History.previous() leaves the current view for the
\* one before it.
HistoryPrevious ==
    /\ nBackSteps < MaxBackSteps
    /\ Len(history) > 1
    /\ nBackSteps' = nBackSteps + 1
    /\ history' = SubSeq(history, 1, Len(history) - 1)
    /\ loadedView' = history[Len(history) - 1]
    /\ UNCHANGED <<_interfaceReady, _playlistReady, playlistInitQueued, playlistItems,
                   mediaLibraryAvailable, initialViews>>


\* ------------------------------------------------------------------------
\* MainCtx::onInputChanged
\* ------------------------------------------------------------------------
\* Number of times the player tells MainCtx that its input changed.
MaxInputChanges == 3

VARIABLES
    autoRaise,     \* var_InheritInteger(p_intf, "qt-auto-raise")
    nAskRaise,     \* askRaise signals emitted so far
    lastInput,     \* the last call of onInputChanged: its argument
    nInputChanges

raiseVars == <<autoRaise, nAskRaise, lastInput, nInputChanges>>

\* enum MainCtx::RAISE_NEVER, RAISE_VIDEO, RAISE_AUDIO: no bit, and one bit
\* each for video and audio.
RAISE_NEVER == 0
RAISE_VIDEO == 1
RAISE_AUDIO == 2

\* value & bit, for a bit that is a power of two and a value that is not
\* negative.
BitAnd(value, bit) == ((value \div bit) % 2) * bit

\* An onInputChanged that asks for the video bit whatever the player shows.
onInputChanged_VideoBitOnly(hasInput, raise, hasVideoOutput) ==
    IF hasInput = FALSE THEN FALSE
    ELSE IF raise = RAISE_NEVER THEN FALSE
    ELSE IF BitAnd(raise, RAISE_VIDEO) = 0 THEN FALSE
    ELSE TRUE

\* MainCtx::onInputChanged: whether askRaise is emitted.
onInputChanged(hasInput, raise, hasVideoOutput) ==
    IF hasInput = FALSE THEN FALSE
    ELSE IF raise = RAISE_NEVER THEN FALSE
    ELSE IF hasVideoOutput
        THEN (IF BitAnd(raise, RAISE_VIDEO) = 0 THEN FALSE ELSE TRUE)
    ELSE IF BitAnd(raise, RAISE_AUDIO) = 0 THEN FALSE
    ELSE TRUE

NoInputChange == [called |-> FALSE, hasInput |-> FALSE]

RaiseInit ==
    /\ autoRaise \in RAISE_NEVER..(RAISE_VIDEO + RAISE_AUDIO)
    /\ nAskRaise = 0
    /\ lastInput = NoInputChange
    /\ nInputChanges = 0

RaiseIdle ==
    /\ autoRaise = RAISE_NEVER
    /\ nAskRaise = 0
    /\ lastInput = NoInputChange
    /\ nInputChanges = 0

\* The player's input changed: onInputChanged is called.
OnInputChanged(hasInput) ==
    /\ nInputChanges < MaxInputChanges
    /\ nInputChanges' = nInputChanges + 1
    /\ lastInput' = [called |-> TRUE, hasInput |-> hasInput]
    /\ nAskRaise' = IF onInputChanged(hasInput, autoRaise, player.hasVideoOutput)
                        THEN nAskRaise + 1 ELSE nAskRaise
    /\ UNCHANGED autoRaise


\* ------------------------------------------------------------------------
\* MainCtx::dropEventPlay
\* ------------------------------------------------------------------------
\* Number of items the playback queue holds before drops are no longer tried.
MaxPlaylist == 2

VARIABLES
    playlist,    \* the playback queue (THEMPL), a sequence of MRLs
    hasInput,    \* THEMIM->hasInput(): a media input is active
    subtitles,   \* the URLs attached to the input as subtitle tracks
    drop         \* the last drop handled: the event, what AddAssociatedMedia
                 \* was asked and returned, and whether the event was accepted

dropVars == <<playlist, hasInput, subtitles, drop>>

\* A resource locator as text: its scheme ("" when the text is a bare path)
\* and what follows the scheme.
Mrl(scheme, path) == [scheme |-> scheme, path |-> path]

EmptyText == Mrl("", "")

\* A QUrl: whether isValid() holds, and its encoded text.
Url(valid, text) == [valid |-> valid, text |-> text]

MovieUrl == Url(TRUE, Mrl("file", "/movie.mp4"))
SubUrl == Url(TRUE, Mrl("file", "/sub.srt"))
PathUrl == Url(TRUE, Mrl("", "/movie.mp4"))
BadUrl == Url(FALSE, EmptyText)

\* The URL lists a drop may carry.
UrlLists ==
    {<<>>, <<MovieUrl>>, <<SubUrl>>, <<BadUrl>>, <<MovieUrl, SubUrl>>, <<BadUrl, MovieUrl>>}

\* The text a drop may carry: none, the text of a URL, a bare path, or text
\* that is no URL.
NoText == [present |-> FALSE, url |-> BadUrl]
Texts ==
    {NoText,
     [present |-> TRUE, url |-> MovieUrl],
     [present |-> TRUE, url |-> PathUrl],
     [present |-> TRUE, url |-> BadUrl]}

\* toURI: a text with a scheme is returned as it is, a bare path becomes a
\* file URI, and nothing is made of an empty text.
toURI(text) ==
    IF text.path = ""
        THEN EmptyText
        ELSE IF text.scheme = ""
            THEN Mrl("file", text.path)
            ELSE text

\* The playlist items made from the valid URLs of a list, in order.
RECURSIVE MediasOf(_)
MediasOf(urls) ==
    IF urls = <<>>
        THEN <<>>
        ELSE LET url == Head(urls)
                 mrl == toURI(url.text)
             IN  (IF url.valid /\ mrl # EmptyText THEN <<mrl>> ELSE <<>>) \o MediasOf(Tail(urls))

\* What dropEventPlay leaves for an event, the state of the input and the
\* value AddAssociatedMedia returns if it is called.
DropResult(pl, tried, ret, accepted) ==
    [playlist |-> pl, attachTried |-> tried, attachRet |-> ret, accepted |-> accepted]

\* dropEventPlay trying the subtitle attachment without asking whether an
\* input is active.
dropEventPlay_AttachWithoutInput(pl, ev, input, attachRet) ==
    IF ~ev.actionOk
        THEN DropResult(pl, <<>>, VLC_EGENERIC, FALSE)
        ELSE IF Len(ev.urls) = 1 /\ attachRet = 0
            THEN DropResult(pl, <<ev.urls[1]>>, attachRet, TRUE)
            ELSE DropResult(pl \o MediasOf(ev.urls),
                            IF Len(ev.urls) = 1 THEN <<ev.urls[1]>> ELSE <<>>,
                            attachRet, TRUE)

\* dropEventPlay taking a non-zero return of AddAssociatedMedia for success.
dropEventPlay_Inverted(pl, ev, input, attachRet) ==
    IF ~ev.actionOk
        THEN DropResult(pl, <<>>, VLC_EGENERIC, FALSE)
        ELSE IF Len(ev.urls) = 1 /\ input /\ attachRet # 0
            THEN DropResult(pl, <<ev.urls[1]>>, attachRet, TRUE)
            ELSE DropResult(pl \o MediasOf(ev.urls),
                            IF Len(ev.urls) = 1 /\ input THEN <<ev.urls[1]>> ELSE <<>>,
                            attachRet, TRUE)

\* dropEventPlay adding the item of the text whether or not the drop has a
\* URL list.
dropEventPlay_TextAlways(pl, ev, input, attachRet) ==
    IF ~ev.actionOk
        THEN DropResult(pl, <<>>, VLC_EGENERIC, FALSE)
        ELSE LET single == Len(ev.urls) = 1 /\ input
                 tried == IF single THEN <<ev.urls[1]>> ELSE <<>>
             IN  IF single /\ attachRet = 0
                     THEN DropResult(pl, tried, attachRet, TRUE)
                     ELSE LET fromText ==
                                  IF ev.text.present /\ ev.text.url.valid
                                      THEN <<toURI(ev.text.url.text)>>
                                      ELSE <<>>
                              medias == MediasOf(ev.urls) \o fromText
                          IN  DropResult(IF medias # <<>> THEN pl \o medias ELSE pl,
                                         tried, attachRet, TRUE)

dropEventPlay(pl, ev, input, attachRet) ==
    IF ~ev.actionOk
        THEN DropResult(pl, <<>>, VLC_EGENERIC, FALSE)
        ELSE LET single == Len(ev.urls) = 1 /\ input
                 tried == IF single THEN <<ev.urls[1]>> ELSE <<>>
             IN  IF single /\ attachRet = 0
                     THEN DropResult(pl, tried, attachRet, TRUE)
                     ELSE LET fromUrls == MediasOf(ev.urls)
                              fromText ==
                                  IF ev.urls = <<>> /\ ev.text.present /\ ev.text.url.valid
                                      THEN <<toURI(ev.text.url.text)>>
                                      ELSE <<>>
                              medias == fromUrls \o fromText
                          IN  DropResult(IF medias # <<>> THEN pl \o medias ELSE pl,
                                         tried, attachRet, TRUE)

DropEvents ==
    {[actionOk |-> a, urls |-> u, text |-> t] :
        a \in BOOLEAN, u \in UrlLists, t \in Texts}

NoDrop ==
    [event |-> [actionOk |-> FALSE, urls |-> <<>>, text |-> NoText],
     input |-> FALSE, before |-> <<>>, attachTried |-> <<>>,
     attachRet |-> VLC_EGENERIC, accepted |-> FALSE, count |-> 0]

DropInit ==
    /\ playlist = <<>>
    /\ hasInput \in BOOLEAN
    /\ subtitles = <<>>
    /\ drop = NoDrop

\* Something is dropped onto a VLC window. AddAssociatedMedia returns
\* VLC_SUCCESS when the player takes the URL as a subtitle track and an error
\* when it rejects it.
DropEventPlay(ev, attachRet) ==
    /\ Len(playlist) < MaxPlaylist
    /\ LET out == dropEventPlay(playlist, ev, hasInput, attachRet)
       IN  /\ playlist' = out.playlist
           /\ subtitles' = IF out.attachTried # <<>> /\ out.attachRet = VLC_SUCCESS
                               THEN <<out.attachTried[1].text>> ELSE subtitles
           /\ drop' = [event |-> ev, input |-> hasInput, before |-> playlist,
                       attachTried |-> out.attachTried,
                       attachRet |-> IF out.attachTried = <<>> THEN VLC_EGENERIC
                                     ELSE out.attachRet,
                       accepted |-> out.accepted, count |-> 1]
    /\ UNCHANGED hasInput

\* The player starts or stops having an input.
InputChanged ==
    /\ hasInput' = ~hasInput
    /\ subtitles' = <<>>
    /\ UNCHANGED <<playlist, drop>>

DropIdle ==
    /\ playlist = <<>>
    /\ hasInput = FALSE
    /\ subtitles = <<>>
    /\ drop = NoDrop

\* ------------------------------------------------------------------------
\* Specifications
\* ------------------------------------------------------------------------
vars == <<winVars, ctxVars, dropVars, lifeVars, closeVars, filterVars, qmlVars, raiseVars>>

\* The macOS video window module.
Init == WinInit /\ CtxIdle /\ DropIdle /\ LifeIdle /\ CloseIdle /\ FilterIdle /\ QmlIdle /\ RaiseIdle

Next ==
    \/ Open /\ UNCHANGED <<ctxVars, dropVars, lifeVars, closeVars, filterVars, qmlVars, raiseVars>>
    \/ /\ \E size \in EngineSizes, decorated \in BOOLEAN :
               WindowEnable([size |-> size, decorated |-> decorated])
       /\ UNCHANGED <<ctxVars, dropVars, lifeVars, closeVars, filterVars, qmlVars, raiseVars>>
    \/ WindowDisable /\ UNCHANGED <<ctxVars, dropVars, lifeVars, closeVars, filterVars, qmlVars, raiseVars>>
    \/ (\E size \in EngineSizes : WindowResize(size)) /\ UNCHANGED <<ctxVars, dropVars, lifeVars, closeVars, filterVars, qmlVars, raiseVars>>
    \/ WindowSetFullscreen /\ UNCHANGED <<ctxVars, dropVars, lifeVars, closeVars, filterVars, qmlVars, raiseVars>>
    \/ WindowUnsetFullscreen /\ UNCHANGED <<ctxVars, dropVars, lifeVars, closeVars, filterVars, qmlVars, raiseVars>>
    \/ (\E title \in Titles : WindowSetTitle(title)) /\ UNCHANGED <<ctxVars, dropVars, lifeVars, closeVars, filterVars, qmlVars, raiseVars>>
    \/ Close /\ UNCHANGED <<ctxVars, dropVars, lifeVars, closeVars, filterVars, qmlVars, raiseVars>>
    \/ UIBegin /\ UNCHANGED <<ctxVars, dropVars, lifeVars, closeVars, filterVars, qmlVars, raiseVars>>
    \/ UIRun /\ UNCHANGED <<ctxVars, dropVars, lifeVars, closeVars, filterVars, qmlVars, raiseVars>>
    \/ (\E size \in UserSizes : UserResize(size)) /\ UNCHANGED <<ctxVars, dropVars, lifeVars, closeVars, filterVars, qmlVars, raiseVars>>
    \/ (\E scale \in Scales : BackingChange(scale)) /\ UNCHANGED <<ctxVars, dropVars, lifeVars, closeVars, filterVars, qmlVars, raiseVars>>
    \/ UserClose /\ UNCHANGED <<ctxVars, dropVars, lifeVars, closeVars, filterVars, qmlVars, raiseVars>>
    \/ UserToggleFullscreen /\ UNCHANGED <<ctxVars, dropVars, lifeVars, closeVars, filterVars, qmlVars, raiseVars>>
    \/ FullscreenTransitionDone /\ UNCHANGED <<ctxVars, dropVars, lifeVars, closeVars, filterVars, qmlVars, raiseVars>>
    \/ DeliverReport /\ UNCHANGED <<ctxVars, dropVars, lifeVars, closeVars, filterVars, qmlVars, raiseVars>>

Spec == Init /\ [][Next]_vars

\* The MainCtx fields, setters and settings.
CtxSpecInit == CtxInit /\ WinIdle /\ DropIdle /\ LifeLive /\ CloseIdle /\ FilterIdle /\ QmlIdle /\ RaiseIdle

CtxSpecNext ==
    \/ /\ \E setter \in Setters : \E v \in ArgumentsOf(setter) : Set(setter, v)
       /\ UNCHANGED <<winVars, dropVars, lifeVars, closeVars, filterVars, qmlVars, raiseVars>>
    \/ ReloadFromSettings /\ UNCHANGED <<winVars, dropVars, lifeVars, closeVars, filterVars, qmlVars, raiseVars>>
    \/ InitSystray /\ UNCHANGED <<winVars, dropVars, lifeVars, closeVars, filterVars, qmlVars, raiseVars>>

CtxSpec == CtxSpecInit /\ [][CtxSpecNext]_vars

\* The user interface scale factor of MainCtx.
ScaleSpecInit ==
    ScaleInit /\ WinIdle /\ DropIdle /\ LifeLive /\ CloseIdle /\ FilterIdle /\ QmlIdle /\ RaiseIdle

ScaleOthersUnchanged ==
    UNCHANGED <<winVars, dropVars, lifeVars, closeVars, filterVars, qmlVars, raiseVars>>

ScaleSpecNext ==
    \/ (\E newValue \in ScaleArguments : SetIntfUserScaleFactor(newValue))
           /\ ScaleOthersUnchanged
    \/ (\E increment \in BOOLEAN : IncrementIntfUserScaleFactor(increment))
           /\ ScaleOthersUnchanged
    \/ ReloadFromSettings /\ ScaleOthersUnchanged

ScaleSpec == ScaleSpecInit /\ [][ScaleSpecNext]_vars

\* The drag-and-drop handler of MainCtx.
DropSpecInit == DropInit /\ WinIdle /\ CtxIdle /\ LifeIdle /\ CloseIdle /\ FilterIdle /\ QmlIdle /\ RaiseIdle

DropSpecNext ==
    \/ /\ \E ev \in DropEvents, attachRet \in {VLC_SUCCESS, VLC_EGENERIC} :
               DropEventPlay(ev, attachRet)
       /\ UNCHANGED <<winVars, ctxVars, lifeVars, closeVars, filterVars, qmlVars, raiseVars>>
    \/ InputChanged /\ UNCHANGED <<winVars, ctxVars, lifeVars, closeVars, filterVars, qmlVars, raiseVars>>

DropSpec == DropSpecInit /\ [][DropSpecNext]_vars

\* MainCtx reloading its preferences.
PrefsSpecInit == PrefsInit /\ WinIdle /\ DropIdle /\ LifeLive /\ CloseIdle /\ FilterIdle /\ QmlIdle /\ RaiseIdle

PrefsSpecNext ==
    \/ /\ \E name \in DOMAIN DefaultOptions : \E value \in OptionValues(name) :
               OptionChanged(name, value)
       /\ UNCHANGED <<winVars, dropVars, lifeVars, closeVars, filterVars, qmlVars, raiseVars>>
    \/ ReloadPrefs /\ UNCHANGED <<winVars, dropVars, lifeVars, closeVars, filterVars, qmlVars, raiseVars>>

PrefsSpec == PrefsSpecInit /\ [][PrefsSpecNext]_vars

\* The constructor and the destructor of MainCtx against the threads of the
\* engine that trigger the variables of libvlc.
CallbackSpecInit == LifeInit /\ settings = EmptyStore /\ WinIdle /\ DropIdle /\ CloseIdle /\ FilterIdle /\ QmlIdle /\ RaiseIdle

CallbackSpecNext ==
    \/ CtorBegin /\ UNCHANGED <<winVars, dropVars, closeVars, filterVars, qmlVars, raiseVars>>
    \/ AddCallback /\ UNCHANGED <<winVars, dropVars, closeVars, filterVars, qmlVars, raiseVars>>
    \/ StoreMainCtx /\ UNCHANGED <<winVars, dropVars, closeVars, filterVars, qmlVars, raiseVars>>
    \/ DtorBegin /\ UNCHANGED <<winVars, dropVars, closeVars, filterVars, qmlVars, raiseVars>>
    \/ DelCallback /\ UNCHANGED <<winVars, dropVars, closeVars, filterVars, qmlVars, raiseVars>>
    \/ DtorEnd /\ UNCHANGED <<winVars, dropVars, closeVars, filterVars, qmlVars, raiseVars>>
    \/ (\E variable \in CallbackVariables : TriggerCallback(variable))
           /\ UNCHANGED <<winVars, dropVars, closeVars, filterVars, qmlVars, raiseVars>>

CallbackSpec == CallbackSpecInit /\ [][CallbackSpecNext]_vars

\* MainCtx objects constructed one after the other over one settings store.
LifeSpecInit == LifeInit /\ WinIdle /\ DropIdle /\ CloseIdle /\ FilterIdle /\ QmlIdle /\ RaiseIdle

LifeSpecNext ==
    \/ CtorBegin /\ UNCHANGED <<winVars, dropVars, closeVars, filterVars, qmlVars, raiseVars>>
    \/ AddCallback /\ UNCHANGED <<winVars, dropVars, closeVars, filterVars, qmlVars, raiseVars>>
    \/ StoreMainCtx /\ UNCHANGED <<winVars, dropVars, closeVars, filterVars, qmlVars, raiseVars>>
    \/ /\ \E setter \in SavedSetters : \E v \in ArgumentsOf(setter) : SetLive(setter, v)
       /\ UNCHANGED <<winVars, dropVars, closeVars, filterVars, qmlVars, raiseVars>>
    \/ DtorBegin /\ UNCHANGED <<winVars, dropVars, closeVars, filterVars, qmlVars, raiseVars>>
    \/ DelCallback /\ UNCHANGED <<winVars, dropVars, closeVars, filterVars, qmlVars, raiseVars>>
    \/ DtorEnd /\ UNCHANGED <<winVars, dropVars, closeVars, filterVars, qmlVars, raiseVars>>

LifeSpec == LifeSpecInit /\ [][LifeSpecNext]_vars

\* The main window is asked to close while the player goes its way.
CloseSpecInit ==
    CloseInit /\ WinIdle /\ CtxIdle /\ DropIdle /\ LifeLive /\ FilterIdle /\ QmlIdle /\ RaiseIdle

CloseSpecNext ==
    \/ OnWindowClose /\ UNCHANGED <<winVars, ctxVars, dropVars, lifeVars, filterVars, qmlVars, raiseVars>>
    \/ (\E state \in PlayingStates : PlayingStateChanged(state))
           /\ UNCHANGED <<winVars, ctxVars, dropVars, lifeVars, filterVars, qmlVars, raiseVars>>
    \/ VideoOutputChanged /\ UNCHANGED <<winVars, ctxVars, dropVars, lifeVars, filterVars, qmlVars, raiseVars>>

CloseSpec == CloseSpecInit /\ [][CloseSpecNext]_vars

\* The control list filter, its source model and its player.
FilterSpecInit ==
    FilterInit /\ WinIdle /\ CtxIdle /\ DropIdle /\ LifeIdle /\ CloseIdle /\ QmlIdle /\ RaiseIdle

FilterOthersUnchanged ==
    UNCHANGED <<winVars, ctxVars, dropVars, lifeVars, closeVars, qmlVars, raiseVars>>

FilterSpecNext ==
    \/ (\E model \in SourceModels : FilterSetSourceModel(model)) /\ FilterOthersUnchanged
    \/ (\E plr \in {None, "player"} : setPlayer(plr)) /\ FilterOthersUnchanged
    \/ TeletextAvailableChanged /\ FilterOthersUnchanged
    \/ HasMenuChanged /\ FilterOthersUnchanged
    \/ (\E source_row \in 0..MaxRows : FilterAcceptsRow(source_row)) /\ FilterOthersUnchanged

FilterSpec == FilterSpecInit /\ [][FilterSpecNext]_vars

\* The root item of the QML interface while it starts.
QmlSpecInit ==
    QmlInit /\ WinIdle /\ CtxIdle /\ DropIdle /\ LifeLive /\ CloseIdle /\ FilterIdle
        /\ RaiseIdle

QmlOthersUnchanged ==
    UNCHANGED <<winVars, ctxVars, dropVars, lifeVars, closeVars, filterVars, raiseVars>>

QmlSpecNext ==
    \/ ComponentCompleted /\ QmlOthersUnchanged
    \/ onPlaylistInitialized /\ QmlOthersUnchanged
    \/ (\E nUrls \in 1..2 : QmlDropped(nUrls)) /\ QmlOthersUnchanged
    \/ QmlPlayerStopped /\ QmlOthersUnchanged
    \/ HistoryPrevious /\ QmlOthersUnchanged

QmlSpec == QmlSpecInit /\ [][QmlSpecNext]_vars

\* MainCtx told of input changes while the player's video output comes and
\* goes.
RaiseSpecInit ==
    /\ RaiseInit
    /\ CloseInit /\ player.exists
    /\ WinIdle /\ CtxIdle /\ DropIdle /\ LifeLive /\ FilterIdle /\ QmlIdle

RaiseSpecNext ==
    \/ /\ \E present \in BOOLEAN : OnInputChanged(present)
       /\ UNCHANGED <<winVars, ctxVars, dropVars, lifeVars, closeVars, filterVars, qmlVars>>
    \/ /\ VideoOutputChanged
       /\ UNCHANGED <<winVars, ctxVars, dropVars, lifeVars, filterVars, qmlVars, raiseVars>>

RaiseSpec == RaiseSpecInit /\ [][RaiseSpecNext]_vars

\* ------------------------------------------------------------------------
\* Properties of the window module
\* ------------------------------------------------------------------------
\* C1: after Close has returned, no vout_window_Report* call is executed on
\* the engine's window object: neither for reports enqueued before Close nor
\* for window events that happen after it.
C1_NoReportAfterClose == ~lastDelivered.afterClose

\* C3: reports reach the engine in the order of the report* calls on the
\* delegate: the k-th vout_window_Report* call executed is the one of the
\* k-th report* call.
C3_ReportsInCallOrder == nDelivered > 0 => lastDelivered.seq = nDelivered

\* Two reports of different kinds were delivered, a third is still pending.
C3_Witness ==
    /\ nDelivered = 2
    /\ lastDelivered.kind = "windowed"
    /\ evQueue # <<>>

\* An enable block is on the main queue or being run by the UI thread.
EnablePending ==
    \/ \E i \in 1..Len(mainQueue) : mainQueue[i].op = "enable"
    \/ uiCur.busy /\ uiCur.blk.op = "enable"

\* C4: WindowEnable is synchronous. While its block is pending the engine
\* thread is blocked in the call (so it has issued nothing after it), and
\* the step at which the engine thread resumes is the step at which
\* showWindowWithConfig completed: the window has the size and decoration
\* of the config and is shown.
C4_EnableSynchronous ==
    [][ /\ EnablePending' => enginePc' = "inEnable"
        /\ (enginePc = "inEnable" /\ enginePc' = "idle") =>
               /\ win'.visible
               /\ win'.size = convertRectFromBacking(uiCur.blk.size, win.scale)
               /\ win'.decorated = uiCur.blk.flag
      ]_vars

\* The engine thread is back from WindowEnable, the window is shown as
\* configured and a later request of the same thread waits on the main queue.
C4_Witness ==
    /\ enginePc = "idle"
    /\ win.visible /\ ~win.decorated /\ win.size # NoSize
    /\ mainQueue # <<>>

\* The UI thread is about to run setWindowFullscreen: on a live controller.
FullscreenRequestRuns == uiCur.busy /\ uiCur.wc /\ uiCur.blk.op = "fullscreen"

\* The event block of the report of the given fullscreen state.
StateReport(fullscreen, seq) ==
    [kind |-> IF fullscreen THEN "fullscreen" ELSE "windowed", size |-> NoSize,
     seq |-> seq]

C6_ToggleReportsOnCompletion ==
    [][ /\ (FullscreenRequestRuns /\ uiCur.blk.flag # win.fullscreen /\ ~uiCur'.busy) =>
               /\ win'.toggles = win.toggles + 1
               /\ win'.fsPending # None
               /\ win'.fullscreen = win.fullscreen
               /\ evQueue' = evQueue
        /\ (Len(evQueue') > Len(evQueue)
              /\ evQueue'[Len(evQueue')].kind \in {"fullscreen", "windowed"}) =>
               /\ \/ FullscreenRequestRuns /\ uiCur.blk.flag = win.fullscreen
                  \/ win.fsPending # None /\ win'.fsPending = None
               /\ evQueue'[Len(evQueue')].kind =
                      (IF win'.fullscreen THEN "fullscreen" ELSE "windowed")
      ]_vars

\* The engine asked for fullscreen, the controller toggled once, the
\* transition completed and its report is the only one pending.
C6_Witness ==
    /\ win.fullscreen /\ win.toggles = 1 /\ win.fsPending = None
    /\ nUIEvents = 0
    /\ Len(evQueue) = 1 /\ evQueue[1].kind = "fullscreen"


\* The step in which the UI thread takes a block from the main queue.
BlockBegins == ~uiCur.busy /\ uiCur'.busy

\* The step in which the UI thread runs the body of the block it took.
BlockRuns == uiCur.busy /\ ~uiCur'.busy

\* C11: a block that the main queue starts after Close has released the
\* window controller finds no controller, and the body of a block without a
\* controller changes nothing of the window and enqueues no report.
C11_LateRequestIsNoOp ==
    [][ /\ (BlockBegins /\ modState = "closed") => ~uiCur'.wc
        /\ (BlockRuns /\ ~uiCur.wc /\ uiCur.blk.op # "init") =>
               /\ win' = win
               /\ evQueue' = evQueue
               /\ nextSeq' = nextSeq
      ]_vars

\* After Close, the UI thread has taken a resize block for a window that is
\* on screen, and the block has no controller.
C11_Witness ==
    /\ modState = "closed"
    /\ uiCur.busy /\ ~uiCur.wc /\ uiCur.blk.op = "resize"
    /\ win.visible
    /\ convertRectFromBacking(uiCur.blk.size, win.scale) # win.size

\* A step of the engine thread: Open up to its dispatch_sync, a window
\* operation, or Close.
EngineStep ==
    \/ nRequests' # nRequests
    \/ (modState' # modState /\ ~BlockRuns)

\* A step of the delegate's event queue.
EventQueueStep == nDelivered' # nDelivered

AsyncOps == {"disable", "resize", "fullscreen", "title"}

\* C13: the step in which the engine issues a disable, resize, fullscreen,
\* unset-fullscreen or set-title request puts the request's block at the end
\* of the main queue and leaves the engine thread free, with the block still
\* to be run; and the UI thread always takes the block at the head of the
\* main queue, so requests are applied in the order they were issued.
C13_AsyncRequestsInOrder ==
    [][ /\ (nRequests' # nRequests /\ mainQueue'[Len(mainQueue')].op \in AsyncOps) =>
               /\ enginePc' = "idle"
               /\ Len(mainQueue') = Len(mainQueue) + 1
               /\ SubSeq(mainQueue', 1, Len(mainQueue)) = mainQueue
               /\ uiCur' = uiCur /\ win' = win
        /\ BlockBegins =>
               /\ uiCur'.blk = Head(mainQueue)
               /\ mainQueue' = Tail(mainQueue)
      ]_vars

\* The engine has issued a resize and then a title request and is free; the
\* resize has been applied and the title request is still on the main queue.
C13_Witness ==
    /\ enginePc = "idle" /\ modState = "open"
    /\ nRequests = 2 /\ nUIEvents = 0
    /\ win.size = <<4 * PointUnit, 2 * PointUnit>>
    /\ win.title = VoutTitle
    /\ ~uiCur.busy
    /\ Len(mainQueue) = 1 /\ mainQueue[1].op = "title"

\* A step of the UI thread handling an event of the user or the window
\* server, while the window still has its controller as delegate.
UIEventWithController == nUIEvents' # nUIEvents /\ ControllerAlive

\* The step enqueues exactly one report, a close report.
OneCloseReportEnqueued ==
    /\ Len(evQueue') = Len(evQueue) + 1
    /\ SubSeq(evQueue', 1, Len(evQueue)) = evQueue
    /\ evQueue'[Len(evQueue')] = [kind |-> "close", size |-> NoSize, seq |-> nextSeq]

\* C14: when the user closes the window, whatever requests and reports are
\* pending, the window closes and exactly one close report is enqueued on
\* the event queue (none is delivered in that step); no other event of the
\* user enqueues a close report.
C14_UserCloseAcceptedAndReported ==
    [][ UIEventWithController =>
           /\ (win.visible /\ ~win'.visible) => OneCloseReportEnqueued
           /\ (Len(evQueue') > Len(evQueue) /\ evQueue'[Len(evQueue')].kind = "close") =>
                  (win.visible /\ ~win'.visible)
           /\ nDelivered' = nDelivered
      ]_vars

\* The user has closed the shown window while the engine was free and a size
\* report was pending: the close report is queued behind it.
C14_Witness ==
    /\ modState = "open" /\ nUIEvents = 1
    /\ ~win.visible /\ win.size # NoSize
    /\ Len(evQueue) = 2
    /\ evQueue[1].kind = "size" /\ evQueue[2].kind = "close"

\* C15: without an NSApplication, Open returns VLC_EGENERIC and the module
\* never has a delegate, a controller or a window, nothing is dispatched to
\* the main queue, and the ops and sys of the window object stay unset.
C15_OpenFailsWithoutApplication ==
    ~nsApp =>
        /\ modState \in {"unopened", "failed"}
        /\ modState = "failed" => wnd.ret = VLC_EGENERIC
        /\ ~sysDelegate /\ vlcWnd = "NULL"
        /\ ~sysWc /\ win.created = 0
        /\ mainQueue = <<>> /\ ~uiCur.busy
        /\ ~wnd.ops /\ ~wnd.sys

\* Open has failed for want of an NSApplication.
C15_Witness == ~nsApp /\ modState = "failed" /\ wnd.ret = VLC_EGENERIC

\* C16: from the return of a successful Open on there is exactly one
\* window / content view pair, whatever is enabled, disabled and enabled
\* again; while the module is open sys holds the controller and the
\* delegate, and these two references are cleared only by Close.
C16_OneWindowPerSession ==
    [][ /\ modState' \in {"open", "closed"} => win'.created = 1
        /\ modState' = "open" => (sysWc' /\ sysDelegate')
        /\ ((sysWc /\ ~sysWc') \/ (sysDelegate /\ ~sysDelegate')) =>
               (modState = "open" /\ modState' = "closed")
      ]_vars

\* The window was shown undecorated by an enable and hidden by a disable (the
\* user did nothing), and the block of another enable is running on the same
\* controller.
C16_Witness ==
    /\ modState = "open" /\ nRequests = 3 /\ nUIEvents = 0
    /\ uiCur.busy /\ uiCur.wc /\ uiCur.blk.op = "enable"
    /\ ~win.visible /\ ~win.decorated
    /\ win.created = 1

\* The event blocks a step appends to the event queue.
NewEventBlocks == SubSeq(evQueue', Len(evQueue) + 1, Len(evQueue'))

\* The UI thread runs the body of a resize block on a live controller.
ResizeRuns == BlockRuns /\ uiCur.wc /\ uiCur.blk.op = "resize"

\* C17: when a resize request for (w, h), both multiples of the backing
\* scale factor, is applied, the size report it causes carries exactly
\* (w, h); it causes one whenever it changes the content size and the module
\* delegate exists, and never more than one.
C17_ResizeRoundTrip ==
    [][ (/\ ResizeRuns
         /\ uiCur.blk.size[1] % win.scale = 0
         /\ uiCur.blk.size[2] % win.scale = 0) =>
            /\ Len(evQueue') >= Len(evQueue)
            /\ Len(NewEventBlocks) <= 1
            /\ \A i \in 1..Len(NewEventBlocks) :
                   /\ NewEventBlocks[i].kind = "size"
                   /\ NewEventBlocks[i].size = uiCur.blk.size
            /\ (win'.size # win.size /\ DelegateAlive) => Len(NewEventBlocks) = 1
      ]_vars

\* On a screen of scale 2 a resize to 4 x 2 was applied to the window, which
\* was never shown, and the report of 4 x 2 is on the event queue.
C17_Witness ==
    /\ nRequests = 1 /\ nUIEvents = 1
    /\ ~uiCur.busy /\ mainQueue = <<>>
    /\ ~win.visible /\ win.scale = 2
    /\ win.size = <<2 * PointUnit, 1 * PointUnit>>
    /\ evQueue # <<>>
    /\ evQueue[Len(evQueue)].kind = "size"
    /\ evQueue[Len(evQueue)].size = <<4, 2>>

\* The UI thread runs the body of an enable or resize block on a live
\* controller.
SizeRequestRuns == BlockRuns /\ uiCur.wc /\ uiCur.blk.op \in {"enable", "resize"}

\* C18: the width and height of an enable or resize request are backing
\* units: the content size applied is the request's size divided by the
\* backing scale factor. Every size report enqueued, by a request, by a user
\* resize or by a change of the backing scale factor alone, carries the
\* content size multiplied by the backing scale factor.
C18_SizesInBackingUnits ==
    [][ /\ SizeRequestRuns =>
               win'.size = <<(uiCur.blk.size[1] * PointUnit) \div win.scale,
                             (uiCur.blk.size[2] * PointUnit) \div win.scale>>
        /\ \A i \in 1..(Len(evQueue') - Len(evQueue)) :
               NewEventBlocks[i].kind = "size" =>
                   NewEventBlocks[i].size =
                       <<(win'.size[1] * win'.scale) \div PointUnit,
                         (win'.size[2] * win'.scale) \div PointUnit>>
      ]_vars

\* The window, enabled at 4 x 2 on a screen of scale 1, has moved to a screen
\* of scale 2: its content size is the same and 8 x 4 is reported.
C18_Witness ==
    /\ nRequests = 1 /\ nUIEvents = 1
    /\ win.visible /\ win.scale = 2
    /\ win.size = <<4 * PointUnit, 2 * PointUnit>>
    /\ evQueue # <<>>
    /\ evQueue[Len(evQueue)].kind = "size"
    /\ evQueue[Len(evQueue)].size = <<8, 4>>

\* C25: every method that reads or writes the delegate's vlc_vout_window
\* does so on the delegate's event queue: the report blocks, the
\* initialization of the view object and the deallocation (the initializer,
\* which sets the ivar before the delegate is shared, is left aside).
C25_WindowPointerOnEventQueueOnly ==
    \A use \in vlcWndUses :
        use.method # "initWithVLCVoutWindow:" => use.on = "eventQueue"


\* The step in which the engine thread issues a resize request.
ResizeIssued ==
    /\ nRequests' = nRequests + 1
    /\ mainQueue'[Len(mainQueue')].op = "resize"

\* C26: the engine-side step of WindowResize enqueues no report and changes
\* nothing of the window. When its block is applied, the only report made is
\* the one of the view's resize handler: none if the content size stays as
\* it is, exactly one, carrying the new size of the view in backing units,
\* if the size changes (and the module delegate exists), and never two.
C26_ResizeReportedOnceByView ==
    [][ /\ ResizeIssued =>
               /\ evQueue' = evQueue /\ nextSeq' = nextSeq
               /\ win' = win
        /\ ResizeRuns =>
               /\ Len(NewEventBlocks) <= 1
               /\ SubSeq(evQueue', 1, Len(evQueue)) = evQueue
               /\ win'.size = win.size => NewEventBlocks = <<>>
               /\ (win'.size # win.size /\ DelegateAlive) =>
                      NewEventBlocks =
                          <<[kind |-> "size",
                             size |-> convertRectToBacking(win'.size, win'.scale),
                             seq |-> nextSeq]>>
      ]_vars

\* The first request of the engine, a resize of the window from its zero
\* size to 2 x 2, has been applied and one size report is pending.
C26_Witness ==
    /\ modState = "open"
    /\ nRequests = 1 /\ nUIEvents = 0 /\ nDelivered = 0
    /\ ~uiCur.busy /\ mainQueue = <<>>
    /\ win.size = <<2 * PointUnit, 2 * PointUnit>>
    /\ evQueue = <<[kind |-> "size", size |-> <<2, 2>>, seq |-> 1]>>

\* The UI thread runs the body of an enable block on a live controller.
EnableRuns == BlockRuns /\ uiCur.wc /\ uiCur.blk.op = "enable"

\* C27: showWindowWithConfig leaves the window shown with the content size
\* and the decoration of the config; of its statements only the last makes
\* the window visible, so a window that was hidden is on screen only with
\* both applied.
C27_WindowShownLast ==
    [][ EnableRuns =>
          LET cfg == [size |-> uiCur.blk.size, decorated |-> uiCur.blk.flag]
              frames == showWindowWithConfigFrames(win, cfg)
              Configured(w) ==
                  /\ w.size = convertRectFromBacking(cfg.size, win.scale)
                  /\ w.decorated = cfg.decorated
          IN  /\ win' = frames[Len(frames)].win
              /\ win'.visible /\ Configured(win')
              /\ \A i \in 1..(Len(frames) - 1) : frames[i].win.visible = win.visible
              /\ \A i \in 1..Len(frames) :
                     (frames[i].win.visible /\ ~win.visible) => Configured(frames[i].win)
      ]_vars

\* The first request of the engine, an enable of the hidden window at 4 x 2
\* with decoration, has been applied: the window is shown as configured.
C27_Witness ==
    /\ modState = "open" /\ enginePc = "idle"
    /\ nRequests = 1 /\ nUIEvents = 0
    /\ ~uiCur.busy /\ mainQueue = <<>>
    /\ win.visible /\ win.decorated
    /\ win.size = <<4 * PointUnit, 2 * PointUnit>>

\* C30: teardown terminates: once Close has dropped the module's reference,
\* the delegate's deallocation completes and no thread is left blocked in
\* dealloc's dispatch_sync, also when report blocks were still pending on
\* the event queue when Close ran.
C30_TeardownTerminates == modState = "closed" => ~evqStuck


\* The UI thread runs the body of a disable block.
RunDisable == uiCur.busy /\ uiCur.blk.op = "disable" /\ ~uiCur'.busy

\* The step enqueues a close report.
CloseReportEnqueued ==
    Len(evQueue') > Len(evQueue) /\ evQueue'[Len(evQueue')].kind = "close"

\* C34: a disable requested by the engine closes the window (if the
\* controller still exists) and enqueues no report, a close report least of
\* all; a close report is enqueued only in a step in which the user closes
\* the window.
C34_DisableReportsNoClose ==
    [][ /\ RunDisable => (evQueue' = evQueue /\ (uiCur.wc => ~win'.visible))
        /\ CloseReportEnqueued =>
              (nUIEvents' = nUIEvents + 1 /\ win.visible /\ ~win'.visible)
      ]_vars

\* The engine has disabled a window that was shown, and no user event has
\* happened: the window is closed and nothing was reported but its size.
C34_Witness ==
    /\ modState = "open" /\ nUIEvents = 0
    /\ win.size # NoSize /\ ~win.visible
    /\ ~uiCur.busy /\ mainQueue = <<>>
    /\ \A i \in 1..Len(evQueue) : evQueue[i].kind # "close"
    /\ lastDelivered.kind # "close"


\* ------------------------------------------------------------------------
\* Properties of MainCtx
\* ------------------------------------------------------------------------
\* The step is a call of a setter with the value its field already holds.
EqualWrite ==
    /\ nCalls' = nCalls + 1
    /\ call'.op \in Setters
    /\ call'.arg = mi[FieldOf[call'.op]]

\* C2 as stated: calling the setter of any observable field with the value
\* the field already holds emits no change signal.
C2_EqualWriteEmitsNothing == [][EqualWrite => emitted' = <<>>]_vars

\* The setters that compare with the current value before writing.
GuardedSetters ==
    {"setPinVideoControls", "setHasAcrylicSurface", "setAcrylicActive", "setPreferHotkeys"}

\* C2 as amended: a call with the current value leaves the field as it is;
\* it emits no signal for pinVideoControls, hasAcrylicSurface, acrylicActive
\* and preferHotkeys (and for a playlist width factor that is not positive),
\* and emits the field's change signal once for every other setter.
C2_EqualWriteEmitsNothingIfGuarded ==
    [][EqualWrite =>
          /\ mi' = mi
          /\ IF \/ call'.op \in GuardedSetters
                \/ (call'.op = "setPlaylistWidthFactor" /\ call'.arg <= 0)
                 THEN emitted' = <<>>
                 ELSE Len(emitted') = 1
      ]_vars

\* setPinVideoControls(true) was called on pinned controls and emitted nothing.
C2_Witness ==
    /\ call.op = "setPinVideoControls" /\ call.arg = TRUE
    /\ mi.m_pinVideoControls
    /\ emitted = <<>>
    /\ nCalls = 2

\* The last operation loaded the settings.
Loaded == call.op \in {"MainCtx", "loadFromSettingsImpl"}

\* C9: after a load from an empty store, with no engine override of the
\* scale, every persisted field holds its default.
C9_EmptyStoreYieldsDefaults ==
    (Loaded /\ settings = EmptyStore /\ qtInterfaceScale = NoScaleOverride) =>
        /\ mi.b_playlistDocked = TRUE
        /\ mi.playlistVisible = FALSE
        /\ mi.playlistWidthFactor = 40
        /\ mi.m_gridView = TRUE
        /\ mi.m_grouping = "GROUPING_NONE"
        /\ mi.m_showRemainingTime = FALSE
        /\ mi.m_pinVideoControls = FALSE
        /\ mi.m_colorScheme = "System"
        /\ mi.m_intfUserScaleFactor = 10

\* A reload from the empty store put a field a setter had changed back to
\* its default, with a signal.
C9_Witness ==
    /\ call.op = "loadFromSettingsImpl"
    /\ settings = EmptyStore /\ qtInterfaceScale = NoScaleOverride
    /\ emitted = <<"playlistWidthFactorChanged">>

\* C10: a stored value out of range is replaced on load by the default, so
\* the field never holds it: stated for the playlist width factor, whose
\* range is the positive numbers.
C10_OutOfRangeReplacedByDefault ==
    Loaded =>
        /\ mi.playlistWidthFactor > 0
        /\ (settings.playlist_width_factor.present
              /\ settings.playlist_width_factor.val <= 0) =>
               mi.playlistWidthFactor = PlaylistWidthFactorDefault

\* C19: once initSystray has run, there is a tray icon if and only if the
\* platform has a tray and qt-system-tray or qt-start-minimized is set; with
\* qt-start-minimized set and no tray on the platform there is no tray icon,
\* b_hideAfterCreation is still false, and initSystray has returned (having
\* logged the error).
C19_SystrayCreatedIffAvailableAndWanted ==
    systray.inited =>
        /\ systray.sysTray <=>
               (systray.env.available
                  /\ (systray.env.wanted \/ systray.env.startMinimized))
        /\ (systray.env.startMinimized /\ ~systray.env.available) =>
               (~systray.sysTray /\ ~systray.b_hideAfterCreation /\ systray.error)
        /\ systray.b_hideAfterCreation <=>
               (systray.env.startMinimized /\ systray.env.available)

\* initSystray has run with qt-start-minimized and qt-system-tray set on a
\* platform without a tray.
C19_Witness ==
    /\ systray.inited
    /\ systray.env.startMinimized /\ systray.env.wanted /\ ~systray.env.available
    /\ ~systray.sysTray /\ ~systray.b_hideAfterCreation

\* C20: after a load the user scale factor is the engine option
\* qt-interface-scale when that is not -1, and otherwise the stored
\* MainWindow/interface-scale, 1.0 when none is stored.
C20_ScaleOverridePrecedence ==
    Loaded =>
        mi.m_intfUserScaleFactor =
            IF qtInterfaceScale # -10
                THEN qtInterfaceScale
                ELSE IF settings.interface_scale.present
                         THEN settings.interface_scale.val
                         ELSE 10

\* MainCtx was constructed with qt-interface-scale 1.5 over a store holding
\* the scale 2.0: the scale is 1.5.
C20_Witness ==
    /\ call.op = "MainCtx"
    /\ qtInterfaceScale = 15
    /\ settings.interface_scale.present /\ settings.interface_scale.val = 20
    /\ mi.m_intfUserScaleFactor = 15

\* The fields loadPrefs loads, in the order of its statements, and the
\* signal each one is loaded with (None: a null signal).
PrefFields ==
    <<"b_minimalView", "i_notificationSetting", "b_interfaceOnTop",
      "m_hasToolbarMenu", "m_windowTitlebar", "m_smoothScroll">>

PrefSignal ==
    [b_minimalView |-> None, i_notificationSetting |-> None,
     b_interfaceOnTop |-> "interfaceAlwaysOnTopChanged",
     m_hasToolbarMenu |-> "hasToolbarMenuChanged",
     m_windowTitlebar |-> "useClientSideDecorationChanged",
     m_smoothScroll |-> "smoothScrollChanged"]

\* The step is a call of reloadPrefs.
ReloadPrefsStep == nCalls' = nCalls + 1 /\ call'.op = "reloadPrefs"

\* The positions in PrefFields of the fields that have a signal and that the
\* step changes.
ChangedSignalFields ==
    {k \in 1..Len(PrefFields) :
        PrefSignal[PrefFields[k]] # None /\ mi'[PrefFields[k]] # mi[PrefFields[k]]}

\* C22: reloadPrefs emits one signal for each changed field that has a
\* change signal, in the order in which loadPrefs loads the fields, and none
\* for a field whose option equals the value it holds; a slot of the signal
\* of a field reads that field and the fields loaded before it with their
\* new values, and every field loaded after it with its old value.
C22_ReloadPrefsPerField ==
    [][ ReloadPrefsStep =>
          /\ Len(observed') = Cardinality(ChangedSignalFields)
          /\ \A i \in 1..Len(observed') :
                 \E k \in ChangedSignalFields :
                     /\ observed'[i].signal = PrefSignal[PrefFields[k]]
                     /\ Cardinality({j \in ChangedSignalFields : j < k}) = i - 1
                     /\ \A j \in 1..Len(PrefFields) :
                            observed'[i].seen[PrefFields[j]] =
                                (IF j <= k THEN mi'[PrefFields[j]] ELSE mi[PrefFields[j]])
          /\ emitted' = [i \in 1..Len(observed') |-> observed'[i].signal]
      ]_vars

\* reloadPrefs has changed video-on-top and smooth scrolling: the slot of
\* interfaceAlwaysOnTopChanged read the new b_interfaceOnTop and the old
\* m_smoothScroll.
C22_Witness ==
    /\ call.op = "reloadPrefs"
    /\ Len(observed) = 2
    /\ observed[1].signal = "interfaceAlwaysOnTopChanged"
    /\ observed[1].seen.b_interfaceOnTop = mi.b_interfaceOnTop
    /\ observed[1].seen.m_smoothScroll # mi.m_smoothScroll
    /\ observed[2].signal = "smoothScrollChanged"

\* C23: each of the four callbacks is registered once by the constructor and
\* not at all once the destructor has deleted it; while any of them is still
\* registered in the destructor p_intf->p_mi still points to the MainCtx; and
\* a callback that uses p_intf->p_mi never runs while it is NULL or while no
\* MainCtx exists.
C23_CallbacksWithinLifetime ==
    /\ \A v \in CallbackVariables : callbacks[v] <= 1
    /\ ctxPc \in {"constructed", "live"} => \A v \in CallbackVariables : callbacks[v] = 1
    /\ ctxPc = "absent" => \A v \in CallbackVariables : callbacks[v] = 0
    /\ (ctxPc = "dtor" /\ \E v \in CallbackVariables : callbacks[v] > 0) =>
           p_mi = "MainCtx"
    /\ (lastCallback.variable # None /\ UsesMainCtx(lastCallback.variable)) =>
           /\ lastCallback.p_mi = "MainCtx"
           /\ lastCallback.pc # "absent"

\* The fields the claim names, by the key they are saved under.
SavedFields ==
    [pl_dock_status |-> "b_playlistDocked",
     playlist_visible |-> "playlistVisible",
     playlist_width_factor |-> "playlistWidthFactor",
     grid_view |-> "m_gridView",
     grouping |-> "m_grouping",
     ShowRemainingTime |-> "m_showRemainingTime",
     pin_video_controls |-> "m_pinVideoControls",
     color_scheme |-> "m_colorScheme"]

\* The step is the construction of a MainCtx after another was destroyed.
Reconstruction == ctxPc = "absent" /\ ctxPc' = "ctor" /\ nLives > 0

\* C24: the destructor leaves each of the eight keys holding the value of
\* its field, and a MainCtx constructed after another one was destroyed,
\* over the settings that one left, has the values the destroyed one had in
\* these fields.
C24_SavedStatesAreLoaded ==
    [][ /\ (ctxPc = "live" /\ ctxPc' = "dtor") =>
               \A key \in DOMAIN SavedFields :
                   /\ settings'[key].present
                   /\ settings'[key].val = mi[SavedFields[key]]
        /\ Reconstruction =>
               \A key \in DOMAIN SavedFields :
                   mi'[SavedFields[key]] = mi[SavedFields[key]]
      ]_vars

\* A second MainCtx is live without a setter called on it: the playlist is
\* visible, grouped by name and of width factor 2.0, as the first one left it.
C24_Witness ==
    /\ nLives = 2 /\ ctxPc = "live"
    /\ call.op = "MainCtx"
    /\ mi.playlistVisible
    /\ mi.m_grouping = "GROUPING_NAME"
    /\ mi.playlistWidthFactor = 20

\* C32: in every reachable state the user interface scale factor lies within
\* the minimum and maximum user scale factor, whatever was loaded from the
\* settings or the engine option and whatever setIntfUserScaleFactor and
\* incrementIntfUserScaleFactor were called with.
C32_ScaleFactorWithinBounds ==
    /\ MinIntfUserScaleFactor <= mi.m_intfUserScaleFactor
    /\ mi.m_intfUserScaleFactor <= MaxIntfUserScaleFactor

\* C35: a MainCtx constructed under an engine override of the interface
\* scale (qt-interface-scale other than -1), whose scale the user never
\* changes, leaves the stored MainWindow/interface-scale as it was when it
\* is destroyed.  No step of the life cycle changes the scale but the load.
C35_OverrideLeavesStoredScale ==
    [][qtInterfaceScale # NoScaleOverride =>
           settings'.interface_scale = settings.interface_scale]_vars

\* A step that is a call of a setter.
SetterStep == nCalls' = nCalls + 1 /\ call'.op \in Setters

\* C37: setPlaylistWidthFactor with a factor that is zero or negative leaves
\* playlistWidthFactor as it was and emits no signal, and no call of a
\* setter takes a positive playlist width factor to one that is not.
C37_WidthFactorStaysPositive ==
    [][ SetterStep =>
          /\ (call'.op = "setPlaylistWidthFactor" /\ call'.arg <= 0) =>
                 (mi' = mi /\ emitted' = <<>>)
          /\ mi.playlistWidthFactor > 0 => mi'.playlistWidthFactor > 0
      ]_vars

\* The width factor was set to 2.0, and a call with -1.0 after it changed
\* nothing.
C37_Witness ==
    /\ nCalls = 2
    /\ call = [op |-> "setPlaylistWidthFactor", arg |-> -10]
    /\ mi.playlistWidthFactor = 20
    /\ emitted = <<>>
    /\ ~settings.playlist_width_factor.present

\* ------------------------------------------------------------------------
\* Properties of dropEventPlay
\* ------------------------------------------------------------------------
\* The last drop carried exactly one URL.
OneUrlDropped == drop.count = 1 /\ Len(drop.event.urls) = 1

\* What C7 says of a drop of one URL onto an active input: the URL was first
\* tried as a subtitle track; when the player took it the playback queue is
\* as it was; the queue grew only when the player rejected it, and then by
\* that URL.
AttachFirst ==
    /\ drop.attachTried = <<drop.event.urls[1]>>
    /\ drop.attachRet = VLC_SUCCESS => playlist = drop.before
    /\ playlist # drop.before =>
           /\ drop.attachRet # VLC_SUCCESS
           /\ playlist = Append(drop.before, drop.event.urls[1].text)
    /\ (drop.attachRet # VLC_SUCCESS /\ drop.event.urls[1].valid) =>
           playlist = Append(drop.before, drop.event.urls[1].text)

\* C7 as stated.
C7_SubtitleAttachFirst == (OneUrlDropped /\ drop.input) => AttachFirst

\* C7 as amended: the same, for a drop that offers a copy, move or link
\* action; any other drop is ignored as a whole.
C7_SubtitleAttachFirstIfActionOffered ==
    (OneUrlDropped /\ drop.input) =>
        IF drop.event.actionOk
            THEN AttachFirst
            ELSE drop.attachTried = <<>> /\ playlist = drop.before /\ ~drop.accepted

\* The player rejected the one dropped URL as a subtitle and the URL was
\* appended to a queue that already held an item.
C7_Witness ==
    /\ OneUrlDropped /\ drop.input /\ drop.event.actionOk
    /\ drop.attachTried = <<MovieUrl>> /\ drop.attachRet = VLC_EGENERIC
    /\ drop.before # <<>>
    /\ playlist = Append(drop.before, Mrl("file", "/movie.mp4"))

\* What C8 says of a drop of one valid URL with no input active: no subtitle
\* attachment was tried and the queue gained one entry, that URL.
EnqueuedOnly ==
    /\ drop.attachTried = <<>>
    /\ playlist = Append(drop.before, drop.event.urls[1].text)

\* C8 as stated.
C8_SingleUrlEnqueued ==
    (OneUrlDropped /\ drop.event.urls[1].valid /\ ~drop.input) => EnqueuedOnly

\* C8 as amended: the same, for a drop that offers a copy, move or link
\* action; any other drop is ignored as a whole.
C8_SingleUrlEnqueuedIfActionOffered ==
    (OneUrlDropped /\ drop.event.urls[1].valid /\ ~drop.input) =>
        IF drop.event.actionOk
            THEN EnqueuedOnly
            ELSE drop.attachTried = <<>> /\ playlist = drop.before /\ ~drop.accepted

\* file:///movie.mp4 was dropped with no input active and is the one entry
\* of the queue.
C8_Witness ==
    /\ OneUrlDropped /\ ~drop.input /\ drop.event.actionOk
    /\ drop.event.urls = <<MovieUrl>>
    /\ drop.attachTried = <<>>
    /\ playlist = <<Mrl("file", "/movie.mp4")>>

\* The last drop had no URL list and a text that is a valid URL.
TextOnlyDropped ==
    /\ drop.count = 1
    /\ drop.event.urls = <<>>
    /\ drop.event.text.present /\ drop.event.text.url.valid

\* The queue gained exactly one item, made from the text of the drop: the
\* text itself when it has a scheme, the file URI of the path otherwise.
TextEnqueued ==
    /\ Len(playlist) = Len(drop.before) + 1
    /\ SubSeq(playlist, 1, Len(drop.before)) = drop.before
    /\ playlist[Len(playlist)].path = drop.event.text.url.text.path
    /\ playlist[Len(playlist)].scheme =
           (IF drop.event.text.url.text.scheme = ""
                THEN "file" ELSE drop.event.text.url.text.scheme)

\* Every item the queue gained was made from a valid URL of the drop's URL
\* list, and there is at most one for each of them.
OnlyUrlsEnqueued ==
    LET validUrls == {i \in 1..Len(drop.event.urls) : drop.event.urls[i].valid}
    IN  /\ Len(playlist) - Len(drop.before) <= Cardinality(validUrls)
        /\ \A k \in (Len(drop.before) + 1)..Len(playlist) :
               \E i \in validUrls : playlist[k].path = drop.event.urls[i].text.path

\* C21 as stated: a drop with no URL list and a text that is a valid URI
\* appends exactly one item built from the text; a drop with a URL list
\* never has its text used.
C21_TextFallback ==
    /\ TextOnlyDropped => TextEnqueued
    /\ (drop.count = 1 /\ drop.event.urls # <<>>) => OnlyUrlsEnqueued

\* C21 as amended: the same, for a drop that offers a copy, move or link
\* action; any other drop is ignored as a whole.
C21_TextFallbackIfActionOffered ==
    /\ TextOnlyDropped =>
           IF drop.event.actionOk
               THEN TextEnqueued
               ELSE playlist = drop.before /\ ~drop.accepted
    /\ (drop.count = 1 /\ drop.event.urls # <<>>) => OnlyUrlsEnqueued

\* The bare path /movie.mp4 was dropped as text, with no URL list, and its
\* file URI was appended to a queue that already held an item.
C21_Witness ==
    /\ TextOnlyDropped /\ drop.event.actionOk
    /\ drop.event.text.url = PathUrl
    /\ drop.before # <<>>
    /\ playlist = Append(drop.before, Mrl("file", "/movie.mp4"))


\* ------------------------------------------------------------------------
\* Properties of MainCtx::onWindowClose
\* ------------------------------------------------------------------------
\* A step that is a call of onWindowClose.
CloseStep == nCloses' = nCloses + 1

\* The player onWindowClose finds has a video output.
ClosedWithVideo == player.exists /\ player.hasVideoOutput

\* C28: closing the main window while the player has a video output is
\* refused (onWindowClose returns false), stops the playlist and emits no
\* askToQuit; askToQuit then comes only in a step in which the playing state
\* becomes PLAYING_STATE_STOPPED.  Without a video output onWindowClose emits
\* askToQuit in the call and accepts the close (returns true).
C28_CloseWaitsForStop ==
    [][ /\ (CloseStep /\ ClosedWithVideo) =>
              /\ lastClose'.ret = FALSE
              /\ playlistStops' = playlistStops + 1
              /\ quit'.asked = quit.asked
        /\ (CloseStep /\ ~ClosedWithVideo) =>
              /\ lastClose'.ret = TRUE
              /\ playlistStops' = playlistStops
              /\ quit'.asked = quit.asked + 1
        /\ (~CloseStep /\ quit'.asked # quit.asked) =>
              /\ quit.connections > 0
              /\ player.state # "PLAYING_STATE_STOPPED"
              /\ player'.state = "PLAYING_STATE_STOPPED"
      ]_vars

\* A close was refused because of the video output, and askToQuit came once
\* the player had stopped.
C28_Witness ==
    /\ nCloses = 1
    /\ lastClose.ret = FALSE
    /\ playlistStops = 1
    /\ player.state = "PLAYING_STATE_STOPPED"
    /\ quit.asked = 1


\* A step in which the player reaches PLAYING_STATE_STOPPED.
PlayerStops ==
    player.state # "PLAYING_STATE_STOPPED" /\ player'.state = "PLAYING_STATE_STOPPED"

\* C31: however many times the main window was asked to close while the
\* player had a video output, askToQuit is emitted exactly once when the
\* player then reaches PLAYING_STATE_STOPPED.
C31_QuitRequestedOnce ==
    [][(PlayerStops /\ quit.connections > 0) => quit'.asked = quit.asked + 1]_vars

\* ------------------------------------------------------------------------
\* Properties of MainCtx::onInputChanged
\* ------------------------------------------------------------------------
\* A step that is a call of onInputChanged.
InputStep == nInputChanges' = nInputChanges + 1

\* The settings of qt-auto-raise that hold the bit.
WithVideoBit == {RAISE_VIDEO, RAISE_VIDEO + RAISE_AUDIO}
WithAudioBit == {RAISE_AUDIO, RAISE_VIDEO + RAISE_AUDIO}

\* C36: onInputChanged emits askRaise iff an input is present, qt-auto-raise
\* is not RAISE_NEVER and it holds the RAISE_VIDEO bit when the player has a
\* video output, the RAISE_AUDIO bit when it has none; otherwise it emits
\* nothing.
C36_RaiseOnInput ==
    [][ InputStep =>
          LET raised == nAskRaise' = nAskRaise + 1
          IN  /\ raised \/ nAskRaise' = nAskRaise
              /\ raised <=>
                    /\ lastInput'.hasInput
                    /\ autoRaise # RAISE_NEVER
                    /\ IF player.hasVideoOutput
                           THEN autoRaise \in WithVideoBit
                           ELSE autoRaise \in WithAudioBit
      ]_vars

\* The interface was raised for an audio input under RAISE_AUDIO, and not
\* raised again once the player had a video output.
C36_Witness ==
    /\ autoRaise = RAISE_AUDIO
    /\ player.hasVideoOutput
    /\ nInputChanges = 2 /\ lastInput.hasInput
    /\ nAskRaise = 1


\* ------------------------------------------------------------------------
\* Properties of ControlListFilter
\* ------------------------------------------------------------------------
\* The filter has both a source model and a player.
FilterSet == sourceModel.set /\ m_player # None

\* What the claim says of a source row: whether the filter accepts it.
AcceptedAsClaimed(source_row, accepted) ==
    LET id == data(sourceModel, source_row)
    IN  /\ (FilterSet /\ id = "TELETEXT_BUTTONS") => (accepted <=> teletextAvailable)
        /\ (FilterSet /\ id = "DVD_MENUS_BUTTON") => (accepted <=> hasMenu)
        /\ (~FilterSet \/ id \notin {"TELETEXT_BUTTONS", "DVD_MENUS_BUTTON"}) => accepted

\* C29: the filter accepts a TELETEXT_BUTTONS row iff the player reports
\* teletext available and a DVD_MENUS_BUTTON row iff the player reports a
\* menu; every other row, and every row while the source model or the player
\* is unset or the row's ID is invalid, is accepted.  This holds of a call of
\* filterAcceptsRow and of the rows the proxy shows.
C29_FilterHidesUnsupportedControls ==
    /\ lastFilter.called =>
          AcceptedAsClaimed(lastFilter.source_row, lastFilter.accepted)
    /\ sourceModel.set =>
          \A row \in 0..(Len(sourceModel.ids) - 1) :
              AcceptedAsClaimed(row, row \in mapped)

\* The proxy hides the DVD menu button of a media without menu and shows the
\* teletext buttons next to it.
C29_Witness ==
    /\ FilterSet
    /\ sourceModel.ids = <<"TELETEXT_BUTTONS", "DVD_MENUS_BUTTON">>
    /\ teletextAvailable /\ ~hasMenu
    /\ mapped = {0}
    /\ lastFilter.called /\ lastFilter.source_row = 1 /\ ~lastFilter.accepted


====
